---- MODULE Spec2Model ----
(***************************************************************************)
(* A model of the humaniser library.  Two revisions of the library are     *)
(* modelled; the variable "variant" says which one is loaded:              *)
(*    "diff"   : src/unnamed/part_000 (humanise with aiMode, seed,         *)
(*               diffHighlight)                                            *)
(*    "smooth" : src/humaniser.js     (humanise with smoothOutput, seed)   *)
(*                                                                         *)
(* Strings.  A JavaScript string is modelled as a sequence of units.  A    *)
(* unit is a record [k, w, c, n]:                                          *)
(*    k = "c" : one character that is not a word character; w is the       *)
(*              character itself (" ", "\t", "\r", "\n", ".", ",", ...),   *)
(*              n = 1;                                                     *)
(*    k = "w" : a maximal run of word characters (letters): the first n    *)
(*              letters of the vocabulary word w, written in case c:       *)
(*              "l" all lower case, "C" first letter upper case, "U" all   *)
(*              upper case (a one letter word is "l" or "U").              *)
(* Adjacent word units are parts of one word (a suffix the code appends    *)
(* to a word is a unit of its own); the texts handed to the library hold   *)
(* no adjacent word units.  The length of a string is the sum of the n of  *)
(* its units.                                                              *)
(***************************************************************************)
EXTENDS Integers, Sequences, FiniteSets, TLC

VARIABLES variant, _seed, input, op, out, calls, firstRun

vars == <<variant, _seed, input, op, out, calls, firstRun>>

----------------------------------------------------------------------------
(* 32-bit words.  TLC's integers are 32-bit signed, so an unsigned 32-bit  *)
(* word is kept as its two 16-bit halves <<hi, lo>>.                       *)

Half == 65536

\* the exclusive or of two w-bit numbers, w a power of two
RECURSIVE XorBits(_, _, _)
XorBits(a, b, w) ==
  IF w = 1 THEN (a + b) % 2
  ELSE LET m == 2 ^ (w \div 2)
       IN XorBits(a % m, b % m, w \div 2) + m * XorBits(a \div m, b \div m, w \div 2)

\* the exclusive or of two 4-bit numbers, as a table
XorTable == [a \in 0..15 |-> [b \in 0..15 |-> XorBits(a, b, 4)]]

\* the exclusive or of two 16-bit numbers, four bits at a time
Xor16(a, b) ==
  LET ByNibble(t) == t[a % 16][b % 16]
                     + 16 * t[(a \div 16) % 16][(b \div 16) % 16]
                     + 256 * t[(a \div 256) % 16][(b \div 256) % 16]
                     + 4096 * t[a \div 4096][b \div 4096]
  IN ByNibble(XorTable)

Xor32(x, y) == <<Xor16(x[1], y[1]), Xor16(x[2], y[2])>>

\* x << 13, x >>> 17, x << 5 on a 32-bit word
Shl13(x) == <<(x[1] % 8) * 8192 + (x[2] \div 8), (x[2] % 8) * 8192>>
Shr17(x) == <<0, x[1] \div 2>>
Shl5(x)  == <<(x[1] % 2048) * 32 + (x[2] \div 2048), (x[2] % 2048) * 32>>

\* s >>> 0 for an integer s
ToUint32(s) ==
  IF s >= 0 THEN <<s \div Half, s % Half>>
  ELSE <<(Half - 1) - ((-s - 1) \div Half), (Half - 1) - ((-s - 1) % Half)>>

Million == 1000000

Max(x, y) == IF x >= y THEN x ELSE y

\* (x >>> 0) % 1000000
Mod1e6(x) == (((((x[1] * 256) % Million) * 256) % Million) + x[2]) % Million

DefaultSeed == <<18, 54919>>   \* 1234567

\* a seed without if(_seed === 0) _seed = 1
SeedValue_NoRemap(s) == ToUint32(s)

\* seed(s)
SeedValue(s) ==
  LET u == ToUint32(s)
  IN IF u = <<0, 0>> THEN <<0, 1>> ELSE u

\* the state after one rnd() from state x
Step(x) ==
  LET Third(b) == Xor32(b, Shl5(b))
      Second(a) == Third(Xor32(a, Shr17(a)))
  IN Second(Xor32(x, Shl13(x)))

\* A generator is threaded through the code as [g |-> state, d |-> draws so far].
\* rnd(): the new generator; the value drawn is Draw(g) millionths.
Rnd(g) == [g |-> Step(g.g), d |-> g.d + 1]
Draw(g) == Mod1e6(g.g)

----------------------------------------------------------------------------
(* Units and strings                                                       *)

Ch(c) == [k |-> "c", w |-> c, c |-> "-", n |-> 1]
Wd(w, c, n) == [k |-> "w", w |-> w, c |-> c, n |-> n]
\* a lower-case word
Lw(w, n) == Wd(w, "l", n)

SP == Ch(" ")
TAB == Ch("\t")
CR == Ch("\r")
NL == Ch("\n")
DOT == Ch(".")
BANG == Ch("!")
QM == Ch("?")
COMMA == Ch(",")
SEMI == Ch(";")
APOS == Ch("'")

IsWord(u) == u.k = "w"
\* no two word units are adjacent
WellFormed(s) == \A i \in 1..(Len(s) - 1) : ~(IsWord(s[i]) /\ IsWord(s[i + 1]))

\* \s
IsWs(u) == u.k = "c" /\ u.w \in {" ", "\t", "\r", "\n"}
\* [.!?]
IsTerm(u) == u.k = "c" /\ u.w \in {".", "!", "?"}
\* . (any character but a line terminator)
IsDot(u) == ~(u.k = "c" /\ u.w \in {"\r", "\n"})

Min(S) == CHOOSE x \in S : \A y \in S : x <= y
Largest(S) == CHOOSE x \in S : \A y \in S : x >= y

\* s.length
RECURSIVE StrLen(_)
StrLen(s) ==
  IF s = <<>> THEN 0
  ELSE IF Len(s) = 1 THEN s[1].n
  ELSE StrLen(SubSeq(s, 1, Len(s) \div 2)) + StrLen(SubSeq(s, (Len(s) \div 2) + 1, Len(s)))

\* the concatenation of the strings of ss
RECURSIVE Flatten(_)
Flatten(ss) ==
  IF ss = <<>> THEN <<>>
  ELSE IF Len(ss) = 1 THEN ss[1]
  ELSE Flatten(SubSeq(ss, 1, Len(ss) \div 2))
       \o Flatten(SubSeq(ss, (Len(ss) \div 2) + 1, Len(ss)))

\* Array.prototype.join
Join(ss, sep) ==
  Flatten([i \in 1..(2 * Len(ss) - 1) |-> IF i % 2 = 1 THEN ss[(i + 1) \div 2] ELSE sep])

\* the number of leading (trailing) whitespace units of s
LeadCount(s) ==
  IF \A i \in 1..Len(s) : IsWs(s[i]) THEN Len(s)
  ELSE Min({i \in 1..Len(s) : ~IsWs(s[i])}) - 1

TrailCount(s) ==
  IF \A i \in 1..Len(s) : IsWs(s[i]) THEN Len(s)
  ELSE Len(s) - Largest({i \in 1..Len(s) : ~IsWs(s[i])})

\* String.prototype.trim
Trim(s) ==
  LET a == LeadCount(s)
  IN IF a = Len(s) THEN <<>> ELSE SubSeq(s, a + 1, Len(s) - TrailCount(s))

\* (line.match(/^\s*/)||[''])[0] and (line.match(/\s*$/)||[''])[0]
LeadingWs(s) == SubSeq(s, 1, LeadCount(s))
TrailingWs(s) == SubSeq(s, Len(s) - TrailCount(s) + 1, Len(s))

\* a word unit in upper case; with its first letter in upper case
UpperUnit(u) == IF IsWord(u) THEN [u EXCEPT !.c = "U"] ELSE u
CapUnit(u) ==
  IF IsWord(u) /\ u.c = "l" THEN [u EXCEPT !.c = IF u.n = 1 THEN "U" ELSE "C"]
  ELSE u

\* String.prototype.toUpperCase
ToUpper(s) == [i \in 1..Len(s) |-> UpperUnit(s[i])]
\* s.charAt(0).toUpperCase() + s.slice(1)
capitalize(s) == IF s = <<>> THEN s ELSE <<CapUnit(s[1])>> \o Tail(s)
\* toLowerCase of one unit
LowerUnit(u) == IF IsWord(u) THEN [u EXCEPT !.c = "l"] ELSE u
\* String.prototype.toLowerCase
ToLower(s) == [i \in 1..Len(s) |-> LowerUnit(s[i])]

----------------------------------------------------------------------------
(* Global patterns.  The places where a pattern can match a string are a   *)
(* set of candidates <<first, last>>, one for each position where a match  *)
(* can start; a global search takes the leftmost candidate, goes on after  *)
(* its end, and so on.                                                     *)

\* the matches of a global pattern from position i on, in order
RECURSIVE GlobalMatches(_, _)
GlobalMatches(cands, i) ==
  LET later == {m \in cands : m[1] >= i}
      m == CHOOSE m \in later : \A m2 \in later : m[1] <= m2[1]
  IN IF later = {} THEN <<>> ELSE <<m>> \o GlobalMatches(cands, m[2] + 1)

\* what s holds between its (k-1)-th and its k-th match
Between(s, ms, k) ==
  SubSeq(s, IF k = 1 THEN 1 ELSE ms[k - 1][2] + 1,
            IF k > Len(ms) THEN Len(s) ELSE ms[k][1] - 1)

\* s.split(pattern)
Split(s, ms) == [k \in 1..(Len(ms) + 1) |-> Between(s, ms, k)]

\* s.replace(pattern, ...), the k-th match replaced by reps[k]
ReplaceAll(s, ms, reps) ==
  Flatten([k \in 1..(2 * Len(ms) + 1) |->
             IF k % 2 = 1 THEN Between(s, ms, (k + 1) \div 2) ELSE reps[k \div 2]])

\* the matches of a one-character pattern
Single(s, c) == GlobalMatches({<<i, i>> : i \in {j \in 1..Len(s) : s[j] = c}}, 1)

\* the end of the run of units of the set cs that starts at p + 1, p if
\* there is none
RunOf(s, p, cs) ==
  IF \A j \in (p + 1)..Len(s) : s[j] \in cs THEN Len(s)
  ELSE Min({j \in (p + 1)..Len(s) : s[j] \notin cs}) - 1

\* text.split(/\r\n|\n/): the lines of a text
LineBreaks(s) ==
  {<<i, i + 1>> : i \in {j \in 1..(Len(s) - 1) : s[j] = CR /\ s[j + 1] = NL}}
  \cup {<<i, i>> : i \in {j \in 1..Len(s) : s[j] = NL}}

SplitLines(s) == Split(s, GlobalMatches(LineBreaks(s), 1))

\* the lines of an output text, which joins its lines with "\n"
SplitNl(s) == Split(s, Single(s, NL))

----------------------------------------------------------------------------
(* splitSentences                                                          *)

\* where /[^.!?]+[.!?]?/g can match s
SentenceCands(s) ==
  {<<i, IF \E j \in i..Len(s) : IsTerm(s[j])
        THEN Min({j \in i..Len(s) : IsTerm(s[j])}) ELSE Len(s)>> :
     i \in {j \in 1..Len(s) : ~IsTerm(s[j])}}

\* .filter(Boolean)
DropEmpty(ss) == SelectSeq(ss, LAMBDA x : x # <<>>)

splitSentences(text) ==
  LET matches == GlobalMatches(SentenceCands(text), 1)
  IN IF matches = <<>> THEN <<text>>
     ELSE DropEmpty([i \in 1..Len(matches) |->
                       Trim(SubSeq(text, matches[i][1], matches[i][2]))])

----------------------------------------------------------------------------
(* choose and the lexicon                                                  *)

\* Probabilities are kept in millionths, the unit of rnd(): rnd() < p is
\* Draw(g) < p.  strength is kept in halves (0, 1, 2 for 0, 0.5, 1.0), so
\* that every product the code forms is a whole number of millionths.
Scaled(p, strength) == (p * strength) \div 2

\* a choose that draws once and uses the draw for both decisions
choose_OneDraw(g, arr, prob) ==
  IF arr = <<>> THEN [g |-> g, v |-> <<>>]
  ELSE LET Drawn(g1) ==
             IF Draw(g1) < prob THEN [g |-> g1, v |-> arr[1]]
             ELSE [g |-> g1, v |-> arr[((Draw(g1) * Len(arr)) \div Million) + 1]]
       IN Drawn(Rnd(g))

\* choose(arr, prob): the generator after the call and the element returned
choose(g, arr, prob) ==
  IF arr = <<>> THEN [g |-> g, v |-> <<>>]
  ELSE LET Picked(g2) == [g |-> g2, v |-> arr[((Draw(g2) * Len(arr)) \div Million) + 1]]
           Drawn(g1) == IF Draw(g1) < prob THEN [g |-> g1, v |-> arr[1]]
                        ELSE Picked(Rnd(g1))
       IN Drawn(Rnd(g))

\* the default of choose's prob, and the value replaceSynonyms passes: 0.6
ChooseProb == 600000

\* dict.en.synonyms, the entries the two revisions share, in insertion order
SynonymsEnCommon ==
  << [key |-> <<Lw("utilize", 7)>>,
       opts |-> << <<Lw("use", 3)>>,
                  <<Lw("make", 4), SP, Lw("use", 3), SP, Lw("of", 2)>> >>],
     [key |-> <<Lw("approximately", 13)>>,
       opts |-> << <<Lw("about", 5)>>,
                  <<Lw("around", 6)>> >>],
     [key |-> <<Lw("implement", 9)>>,
       opts |-> << <<Lw("put", 3), SP, Lw("in", 2), SP, Lw("place", 5)>>,
                  <<Lw("roll", 4), SP, Lw("out", 3)>>,
                  <<Lw("set", 3), SP, Lw("up", 2)>> >>],
     [key |-> <<Lw("evaluate", 8)>>,
       opts |-> << <<Lw("review", 6)>>,
                  <<Lw("check", 5)>>,
                  <<Lw("assess", 6)>>,
                  <<Lw("look", 4), SP, Lw("over", 4)>> >>],
     [key |-> <<Lw("recommended", 11)>>,
       opts |-> << <<Lw("suggested", 9)>>,
                  <<Lw("advised", 7)>> >>],
     [key |-> <<Lw("therefore", 9)>>,
       opts |-> << <<Lw("so", 2)>>,
                  <<Lw("thus", 4)>> >>],
     [key |-> <<Lw("contact", 7)>>,
       opts |-> << <<Lw("reach", 5), SP, Lw("out", 3)>>,
                  <<Lw("get", 3), SP, Lw("in", 2), SP, Lw("touch", 5)>> >>],
     [key |-> <<Lw("require", 7)>>,
       opts |-> << <<Lw("need", 4)>>,
                  <<Lw("ask", 3), SP, Lw("for", 3)>> >>],
     [key |-> <<Lw("perform", 7)>>,
       opts |-> << <<Lw("do", 2)>>,
                  <<Lw("carry", 5), SP, Lw("out", 3)>> >>],
     [key |-> <<Lw("prefer", 6)>>,
       opts |-> << <<Lw("like", 4), SP, Lw("better", 6)>>,
                  <<Lw("favor", 5)>> >>] >>

\* the entry only part_000 has
SynonymsEnExtra ==
  << [key |-> <<Lw("prototype", 9)>>,
       opts |-> << <<Lw("sample", 6)>>,
                  <<Lw("early", 5), SP, Lw("version", 7)>> >>] >>

\* dict.nl.synonyms of part_000
SynonymsNlDiff ==
  << [key |-> <<Lw("implementatie", 13)>>,
       opts |-> << <<Lw("uitvoering", 10)>>,
                  <<Lw("doorvoering", 11)>>,
                  <<Lw("implementatie", 13)>> >>],
     [key |-> <<Lw("implementeren", 13)>>,
       opts |-> << <<Lw("doorvoeren", 10)>>,
                  <<Lw("uitrollen", 9)>>,
                  <<Lw("invoeren", 8)>> >>],
     [key |-> <<Lw("evalueren", 9)>>,
       opts |-> << <<Lw("beoordelen", 10)>>,
                  <<Lw("nakijken", 8)>>,
                  <<Lw("controleren", 11)>> >>],
     [key |-> <<Lw("aanbevolen", 10)>>,
       opts |-> << <<Lw("aangeraden", 10)>>,
                  <<Lw("aanbevolen", 10)>> >>],
     [key |-> <<Lw("ongeveer", 8)>>,
       opts |-> << <<Lw("rond", 4)>>,
                  <<Lw("circa", 5)>>,
                  <<Lw("ongeveer", 8)>> >>],
     [key |-> <<Lw("gebruikers", 10)>>,
       opts |-> << <<Lw("gebruikers", 10)>>,
                  <<Lw("gebruikers", 10)>> >>],
     [key |-> <<Lw("leverancier", 11)>>,
       opts |-> << <<Lw("partij", 6)>>,
                  <<Lw("leverancier", 11)>>,
                  <<Lw("partner", 7)>> >>],
     [key |-> <<Lw("voorkeur", 8)>>,
       opts |-> << <<Lw("liever", 6), SP, Lw("hebben", 6)>>,
                  <<Lw("voorkeur", 8), SP, Lw("hebben", 6)>> >>],
     [key |-> <<Lw("aanpassingsmogelijkheden", 24)>>,
       opts |-> << <<Lw("instellingsopties", 17)>>,
                  <<Lw("aanpassingen", 12)>> >>] >>

\* dict.nl.synonyms of humaniser.js
SynonymsNlSmooth ==
  << [key |-> <<Lw("implementatie", 13)>>,
       opts |-> << <<Lw("uitvoering", 10)>>,
                  <<Lw("doorvoering", 11)>>,
                  <<Lw("implementatie", 13)>> >>],
     [key |-> <<Lw("implementatie", 13), DOT>>,
       opts |-> << <<Lw("uitvoering", 10), DOT>> >>],
     [key |-> <<Lw("implementeren", 13)>>,
       opts |-> << <<Lw("doorvoeren", 10)>>,
                  <<Lw("uitrollen", 9)>>,
                  <<Lw("invoeren", 8)>> >>],
     [key |-> <<Lw("evalueren", 9)>>,
       opts |-> << <<Lw("beoordelen", 10)>>,
                  <<Lw("nakijken", 8)>>,
                  <<Lw("controleren", 11)>> >>],
     [key |-> <<Lw("aanbevolen", 10)>>,
       opts |-> << <<Lw("aangeraden", 10)>>,
                  <<Lw("aanbevolen", 10)>> >>],
     [key |-> <<Lw("ongeveer", 8)>>,
       opts |-> << <<Lw("rond", 4)>>,
                  <<Lw("circa", 5)>>,
                  <<Lw("ongeveer", 8)>> >>],
     [key |-> <<Lw("gebruikers", 10)>>,
       opts |-> << <<Lw("gebruikers", 10)>>,
                  <<Lw("gebruikers", 10)>> >>],
     [key |-> <<Lw("leverancier", 11)>>,
       opts |-> << <<Lw("partij", 6)>>,
                  <<Lw("leverancier", 11)>>,
                  <<Lw("partner", 7)>> >>],
     [key |-> <<Lw("voorkeur", 8)>>,
       opts |-> << <<Lw("liever", 6), SP, Lw("hebben", 6)>>,
                  <<Lw("voorkeur", 8), SP, Lw("hebben", 6)>> >>],
     [key |-> <<Lw("aanpassingsmogelijkheden", 24)>>,
       opts |-> << <<Lw("instellingsopties", 17)>>,
                  <<Lw("aanpassingen", 12)>> >>] >>

\* dict.en.contractions (the same in the two revisions)
ContractionsEn ==
  << [key |-> <<Lw("do", 2), SP, Lw("not", 3)>>, to |-> <<Lw("don", 3), APOS, Lw("t", 1)>>],
     [key |-> <<Lw("does", 4), SP, Lw("not", 3)>>, to |-> <<Lw("doesn", 5), APOS, Lw("t", 1)>>],
     [key |-> <<Lw("did", 3), SP, Lw("not", 3)>>, to |-> <<Lw("didn", 4), APOS, Lw("t", 1)>>],
     [key |-> <<Lw("cannot", 6)>>, to |-> <<Lw("can", 3), APOS, Lw("t", 1)>>],
     [key |-> <<Lw("will", 4), SP, Lw("not", 3)>>, to |-> <<Lw("won", 3), APOS, Lw("t", 1)>>],
     [key |-> <<Lw("is", 2), SP, Lw("not", 3)>>, to |-> <<Lw("isn", 3), APOS, Lw("t", 1)>>],
     [key |-> <<Lw("are", 3), SP, Lw("not", 3)>>, to |-> <<Lw("aren", 4), APOS, Lw("t", 1)>>],
     [key |-> <<Lw("it", 2), SP, Lw("is", 2)>>, to |-> <<Lw("it", 2), APOS, Lw("s", 1)>>],
     [key |-> <<Lw("that", 4), SP, Lw("is", 2)>>, to |-> <<Lw("that", 4), APOS, Lw("s", 1)>>],
     [key |-> <<Lw("i", 1), SP, Lw("am", 2)>>, to |-> <<Wd("i", "U", 1), APOS, Lw("m", 1)>>],
     [key |-> <<Lw("we", 2), SP, Lw("are", 3)>>, to |-> <<Lw("we", 2), APOS, Lw("re", 2)>>],
     [key |-> <<Lw("you", 3), SP, Lw("are", 3)>>, to |-> <<Lw("you", 3), APOS, Lw("re", 2)>>],
     [key |-> <<Lw("they", 4), SP, Lw("are", 3)>>, to |-> <<Lw("they", 4), APOS, Lw("re", 2)>>],
     [key |-> <<Lw("we", 2), SP, Lw("will", 4)>>, to |-> <<Lw("we", 2), APOS, Lw("ll", 2)>>],
     [key |-> <<Lw("you", 3), SP, Lw("will", 4)>>, to |-> <<Lw("you", 3), APOS, Lw("ll", 2)>>],
     [key |-> <<Lw("i", 1), SP, Lw("will", 4)>>, to |-> <<Wd("i", "U", 1), APOS, Lw("ll", 2)>>],
     [key |-> <<Lw("it", 2), SP, Lw("will", 4)>>, to |-> <<Lw("it", 2), APOS, Lw("ll", 2)>>] >>

\* dict.nl.contractions of humaniser.js (part_000: none)
ContractionsNlSmooth ==
  << [key |-> <<Lw("het", 3), SP, Lw("is", 2)>>, to |-> <<Lw("het", 3), SP, Lw("is", 2)>>],
     [key |-> <<Lw("dat", 3), SP, Lw("is", 2)>>, to |-> <<Lw("dat", 3), SP, Lw("is", 2)>>] >>

\* dict[lang].synonyms of the loaded revision
Synonyms(v, lang) ==
  IF lang = "en"
  THEN SynonymsEnCommon \o (IF v = "diff" THEN SynonymsEnExtra ELSE <<>>)
  ELSE IF v = "diff" THEN SynonymsNlDiff ELSE SynonymsNlSmooth

\* dict[lang].contractions of the loaded revision
Contractions(v, lang) ==
  IF lang = "en" THEN ContractionsEn
  ELSE IF v = "diff" THEN <<>> ELSE ContractionsNlSmooth

\* preserveCase(src, dest), src not empty
preserveCase(src, dest) ==
  IF \A i \in 1..Len(src) : IsWord(src[i]) => src[i].c = "U" THEN ToUpper(dest)
  ELSE IF ~IsWord(src[1]) \/ src[1].c # "l" THEN capitalize(dest)
  ELSE dest

\* \b holds between positions i - 1 and i of s
BoundaryAt(s, i) ==
  (i > 1 /\ IsWord(s[i - 1])) # (i <= Len(s) /\ IsWord(s[i]))

\* new RegExp('\\b' + escapeRegex(k) + '\\b', 'gi') matches s at position i
KeyMatchAt(s, i, k) ==
  /\ i + Len(k) - 1 <= Len(s)
  /\ LowerUnit(s[i]) = k[1]
  /\ ToLower(SubSeq(s, i, i + Len(k) - 1)) = k
  /\ BoundaryAt(s, i)
  /\ BoundaryAt(s, i + Len(k))

----------------------------------------------------------------------------
(* replaceSynonyms                                                         *)

\* baseProb
BaseProb(variability) ==
  IF variability = "high" THEN 900000
  ELSE IF variability = "medium" THEN 600000
  ELSE 300000

\* the last position of the run of non-whitespace units that holds position p
RunEnd(s, p) ==
  IF \A j \in (p + 1)..Len(s) : ~IsWs(s[j]) THEN Len(s)
  ELSE Min({j \in (p + 1)..Len(s) : IsWs(s[j])}) - 1

\* /https?:\/\/\S+|\S+@\S+/gi matches s at position p (and then up to RunEnd)
UrlAt(s, p) ==
  /\ IsWord(s[p])
  /\ LowerUnit(s[p]) \in {Lw("http", 4), Lw("https", 5)}
  /\ p + 4 <= Len(s)
  /\ s[p + 1] = Ch(":") /\ s[p + 2] = Ch("/") /\ s[p + 3] = Ch("/")
  /\ ~IsWs(s[p + 4])
MailAt(s, p) ==
  /\ ~IsWs(s[p])
  /\ \E q \in (p + 1)..(RunEnd(s, p) - 1) : s[q] = Ch("@")

\* the placeholder words __PH_0__, __PH_1__, ... (humaniser.js:
\* __PLACEHOLDER_0__, ...); a sentence of the model holds at most three
PhNames == <<"__PH_0__", "__PH_1__", "__PH_2__">>
PhUnit(i) == [k |-> "w", w |-> PhNames[i], c |-> "-", n |-> 8]

\* the first replace of replaceSynonyms: [s: the string with placeholders,
\* ph: the protected strings]
Protect(s) ==
  LET Held(ms) ==
        [s |-> ReplaceAll(s, ms, [k \in 1..Len(ms) |-> <<PhUnit(k)>>]),
         ph |-> [k \in 1..Len(ms) |-> SubSeq(s, ms[k][1], ms[k][2])]]
  IN Held(GlobalMatches({<<p, RunEnd(s, p)>> :
                           p \in {q \in 1..Len(s) : UrlAt(s, q) \/ MailAt(s, q)}}, 1))

\* the last replace of replaceSynonyms: placeholders[n] || m
RestoreUnit(u, ph) ==
  IF IsWord(u) /\ \E i \in 1..Len(ph) : u.w = PhNames[i]
  THEN ph[CHOOSE i \in 1..Len(ph) : u.w = PhNames[i]]
  ELSE <<u>>

Restore(s, ph) == Flatten([i \in 1..Len(s) |-> RestoreUnit(s[i], ph)])

\* Object.keys(table).sort((a, b) => b.length - a.length): a stable sort,
\* longest key first; the place of the i-th entry is one more than the
\* number of entries that come before it
KeyRank(table, i) ==
  1 + Cardinality({j \in 1..Len(table) :
                     \/ StrLen(table[j].key) > StrLen(table[i].key)
                     \/ StrLen(table[j].key) = StrLen(table[i].key) /\ j < i})

SortKeys(table) ==
  [p \in 1..Len(table) |-> table[CHOOSE i \in 1..Len(table) : KeyRank(table, i) = p]]

\* s.replace(re, callback) for the key e, from position i on; st is
\* [s: the result so far, g: the generator, replaced: the counter]
\* where new RegExp('\\b' + escapeRegex(k) + '\\b', 'gi') can match s
KeyCands(s, k) ==
  {<<i, i + Len(k) - 1>> : i \in {j \in 1..Len(s) : KeyMatchAt(s, j, k)}}

\* the callback of s.replace(re, function(m){...}) at the matches ms of the
\* key of entry e, from the k-th match on; st is [reps: the replacements so
\* far, g: the generator, replaced]
RECURSIVE SynCallbacks(_, _, _, _, _, _)
SynCallbacks(s, ms, k, e, prob, st) ==
  IF k > Len(ms) THEN st
  ELSE LET m == SubSeq(s, ms[k][1], ms[k][2])
           \* return m
           Kept(g1) == [reps |-> Append(st.reps, m), g |-> g1,
                        replaced |-> st.replaced]
           \* replaced++; return preserveCase(m, pick)
           Swapped(pick) == [reps |-> Append(st.reps, preserveCase(m, pick.v)),
                             g |-> pick.g, replaced |-> st.replaced + 1]
           \* if (rnd() > prob) return m; const pick = choose(table[k], 0.6)
           Drawn(g1) == IF Draw(g1) > prob THEN Kept(g1)
                        ELSE Swapped(choose(g1, e.opts, ChooseProb))
       IN SynCallbacks(s, ms, k + 1, e, prob, Drawn(Rnd(st.g)))

\* s = s.replace(re, function(m){...}) for the key of entry e; st is
\* [s, g, replaced]
SynScan(e, prob, st) ==
  LET Replaced(ms, r) ==
        [s |-> ReplaceAll(st.s, ms, r.reps), g |-> r.g, replaced |-> r.replaced]
      Scan(ms) ==
        IF ms = <<>> THEN st
        ELSE Replaced(ms, SynCallbacks(st.s, ms, 1, e, prob,
                                       [reps |-> <<>>, g |-> st.g,
                                        replaced |-> st.replaced]))
  IN Scan(GlobalMatches(KeyCands(st.s, e.key), 1))

\* for (const k of keys), from the i-th key on: a key that matches nowhere
\* in the string changes nothing and draws nothing, so the loop goes from one
\* key that matches to the next, until replaced >= maxPerLine breaks it
RECURSIVE SynKeys(_, _, _, _, _)
SynKeys(keys, i, prob, maxPerLine, st) ==
  LET hits == {k \in i..Len(keys) : KeyCands(st.s, keys[k].key) # {}}
  IN IF hits = {} \/ st.replaced >= maxPerLine THEN st
     ELSE SynKeys(keys, Min(hits) + 1, prob, maxPerLine,
                  SynScan(keys[Min(hits)], prob, st))

\* the keys of dict[lang].synonyms of each revision, sorted
SortedEnDiff == SortKeys(Synonyms("diff", "en"))
SortedNlDiff == SortKeys(Synonyms("diff", "nl"))
SortedEnSmooth == SortKeys(Synonyms("smooth", "en"))
SortedNlSmooth == SortKeys(Synonyms("smooth", "nl"))
SortedSynonyms(v, lang) ==
  IF v = "diff" THEN IF lang = "en" THEN SortedEnDiff ELSE SortedNlDiff
  ELSE IF lang = "en" THEN SortedEnSmooth ELSE SortedNlSmooth

\* Math.max(1, Math.floor(2 * prob))
MaxPerLine(prob) == Max(1, (2 * prob) \div Million)

\* replaceSynonyms(s, lang, variability, strength) in revision v from
\* generator g: [s: the result, g: the generator, replaced: the counter]
replaceSynonyms(v, g, s, lang, variability, strength) ==
  LET prob == Scaled(BaseProb(variability), strength)
      Restored(pr, r) == [s |-> Restore(r.s, pr.ph), g |-> r.g, replaced |-> r.replaced]
      Scanned(pr) ==
        Restored(pr, SynKeys(SortedSynonyms(v, lang), 1, prob, MaxPerLine(prob),
                             [s |-> pr.s, g |-> g, replaced |-> 0]))
  IN Scanned(Protect(s))

----------------------------------------------------------------------------
(* detectLanguage                                                          *)

\* s holds the word w (of n letters, in any case) between two spaces
Spaced(s, w, n) ==
  \E i \in 2..(Len(s) - 1) :
    s[i - 1] = SP /\ LowerUnit(s[i]) = Lw(w, n) /\ s[i + 1] = SP

\* The words of the model's texts are those of the lexicon, of the patterns
\* and of the phrases the code appends, and the filler word x.  Of these,
\* the ones that end with a marker of detectLanguage, as <<word, letters>>,
\* and the ones that hold 'heb'.
EndsWith(m) ==
  IF m = "een" THEN {<<"een", 3>>, <<"been", 4>>}
  ELSE IF m = "van" THEN {<<"van", 3>>}
  ELSE IF m = "niet" THEN {<<"niet", 4>>}
  ELSE IF m = "zijn" THEN {<<"zijn", 4>>}
  ELSE IF m = "dat" THEN {<<"dat", 3>>, <<"omdat", 5>>}
  ELSE IF m = "door" THEN {<<"door", 4>>}
  ELSE {}
HoldsHeb == {<<"hebben", 6>>}

\* s holds a word that ends with m, followed by a space
Ending(s, m) ==
  \E i \in 1..(Len(s) - 1) :
    IsWord(s[i]) /\ <<s[i].w, s[i].n>> \in EndsWith(m) /\ s[i + 1] = SP

\* s holds a word that holds 'heb'
Heb(s) == \E i \in 1..Len(s) : IsWord(s[i]) /\ <<s[i].w, s[i].n>> \in HoldsHeb

Count(bs) == Cardinality({i \in 1..Len(bs) : bs[i]})

\* detectLanguage(text), text shorter than 800 characters
detectLanguage(text) ==
  LET scoreNL == Count(<<Spaced(text, "de", 2), Spaced(text, "het", 3),
                         Spaced(text, "en", 2), Ending(text, "van"),
                         Ending(text, "niet"), Ending(text, "zijn"),
                         Ending(text, "een"), Ending(text, "dat"),
                         Heb(text), Ending(text, "door")>>)
      scoreEN == Count(<<Spaced(text, "the", 3), Spaced(text, "and", 3),
                         Spaced(text, "of", 2), Spaced(text, "to", 2),
                         Spaced(text, "not", 3), Spaced(text, "is", 2),
                         Spaced(text, "are", 3), Spaced(text, "that", 4),
                         Spaced(text, "have", 4)>>)
  IN IF scoreNL >= scoreEN THEN "nl" ELSE "en"

----------------------------------------------------------------------------
(* applyContractions                                                       *)

\* s.replace(re, m => preserveCase(m, v)) for one entry
Contract(s, e) ==
  LET ms == GlobalMatches(KeyCands(s, e.key), 1)
  IN IF ms = <<>> THEN s
     ELSE ReplaceAll(s, ms, [k \in 1..Len(ms) |->
                               preserveCase(SubSeq(s, ms[k][1], ms[k][2]), e.to)])

\* for (const [k, v] of Object.entries(table)), from the i-th entry on: an
\* entry whose key matches nowhere changes nothing, so the loop goes from
\* one entry that matches to the next; humaniser.js skips an entry with
\* k === v
RECURSIVE ContractAll(_, _, _, _)
ContractAll(v, s, table, i) ==
  LET hits == {k \in i..Len(table) :
                 /\ KeyCands(s, table[k].key) # {}
                 /\ ~(v = "smooth" /\ table[k].key = table[k].to)}
  IN IF hits = {} THEN s
     ELSE ContractAll(v, Contract(s, table[Min(hits)]), table, Min(hits) + 1)

\* applyContractions(s, lang, enabled) in revision v
applyContractions(v, s, lang, enabled) ==
  IF ~enabled THEN s ELSE ContractAll(v, s, Contractions(v, lang), 1)

----------------------------------------------------------------------------
(* passiveToActive_en, passiveToActive_nl                                  *)

\* the number of trailing units of s that are [.!?]
TermCount(s) ==
  IF \A i \in 1..Len(s) : IsTerm(s[i]) THEN Len(s)
  ELSE Len(s) - Largest({i \in 1..Len(s) : ~IsTerm(s[i])})

\* (.+): every unit is matched by the dot
AllDot(s) == \A i \in 1..Len(s) : IsDot(s[i])

\* u is the word w of n letters, in any case
IsThe(u, w, n) == IsWord(u) /\ LowerUnit(u) = Lw(w, n)

\* The auxiliaries of the patterns: the number of units of the auxiliary
\* that starts at position p of s, 0 if none does.
\* (?:was|were|is|are|has been|have been|had been)
AuxEn1(s, p) ==
  IF IsThe(s[p], "was", 3) \/ IsThe(s[p], "were", 4) \/ IsThe(s[p], "is", 2)
     \/ IsThe(s[p], "are", 3) THEN 1
  ELSE IF /\ (IsThe(s[p], "has", 3) \/ IsThe(s[p], "have", 4) \/ IsThe(s[p], "had", 3))
          /\ p + 2 <= Len(s) /\ s[p + 1] = SP /\ IsThe(s[p + 2], "been", 4) THEN 3
  ELSE 0

\* the end of the whitespace run that starts at p + 1, p if there is none
WsEnd(s, p) == RunOf(s, p, {SP, TAB, CR, NL})

\* (is|are|was|were)\s+being
AuxEn2(s, p) ==
  IF /\ (IsThe(s[p], "is", 2) \/ IsThe(s[p], "are", 3) \/ IsThe(s[p], "was", 3)
         \/ IsThe(s[p], "were", 4))
     /\ WsEnd(s, p) > p /\ WsEnd(s, p) < Len(s)
     /\ IsThe(s[WsEnd(s, p) + 1], "being", 5)
  THEN WsEnd(s, p) + 1 - p + 1
  ELSE 0

\* (?:werd|werden|is|zijn|wordt|worden|was|waren)
AuxNl1(s, p) ==
  IF IsThe(s[p], "werd", 4) \/ IsThe(s[p], "werden", 6) \/ IsThe(s[p], "is", 2)
     \/ IsThe(s[p], "zijn", 4) \/ IsThe(s[p], "wordt", 5) \/ IsThe(s[p], "worden", 6)
     \/ IsThe(s[p], "was", 3) \/ IsThe(s[p], "waren", 5) THEN 1
  ELSE 0

\* wordt
AuxNl2(s, p) == IF IsThe(s[p], "wordt", 5) THEN 1 ELSE 0

\* The tail \s+BY\s+(.+)$ of a pattern matches s from position j + 1 on
ByTail(s, j, by, byLen) ==
  /\ WsEnd(s, j) > j /\ WsEnd(s, j) < Len(s)
  /\ IsThe(s[WsEnd(s, j) + 1], by, byLen)
  /\ WsEnd(s, WsEnd(s, j) + 1) > WsEnd(s, j) + 1
  /\ WsEnd(s, WsEnd(s, j) + 1) < Len(s)
  /\ AllDot(SubSeq(s, WsEnd(s, WsEnd(s, j) + 1) + 1, Len(s)))

\* The middle \s+(.+?) of a pattern, after an auxiliary that ends at position
\* q: the trials <<k, j>> in the order the matcher tries them, where the
\* \s+ takes k units (all of the run first) and the group ends at j (the
\* shortest first), and the first trial the tail matches after: <<st, j>>
\* with the group SubSeq(s, st, j), or <<>>.
MiddleTrials(s, q, by, byLen) ==
  {t \in (1..(WsEnd(s, q) - q)) \X ((q + 2)..Len(s)) :
     /\ t[2] >= q + t[1] + 1
     /\ AllDot(SubSeq(s, q + t[1] + 1, t[2]))
     /\ ByTail(s, t[2], by, byLen)}

FirstMiddle(s, q, by, byLen) ==
  LET First(ts) ==
        IF ts = {} THEN <<>>
        ELSE LET k == CHOOSE k \in {t[1] : t \in ts} : \A t \in ts : t[1] <= k
                 j == Min({t[2] : t \in {u \in ts : u[1] = k}})
             IN <<q + k + 1, j>>
  IN First(MiddleTrials(s, q, by, byLen))

\* the positions p where an auxiliary starts such that the pattern
\*   ^(.+?)\s+AUX\s+(.+?)\s+BY\s+(.+)$
\* matches s with the first group ending before the whitespace before p,
\* each with the place of the second group: <<p, <<first, last>>>>
AuxStarts(s, Aux(_, _), by, byLen) ==
  {c \in {<<p, FirstMiddle(s, p + Aux(s, p) - 1, by, byLen)>> :
             p \in {x \in 3..Len(s) :
                      /\ Aux(s, x) > 0
                      /\ IsWs(s[x - 1])
                      /\ \E i \in 1..(x - 2) :
                           /\ AllDot(SubSeq(s, 1, i))
                           /\ \A y \in (i + 1)..(x - 1) : IsWs(s[y])
                      /\ x + Aux(s, x) - 1 < Len(s)}} :
     c[2] # <<>>}

\* the match of the pattern in s: [ok, obj, aux, verb, agent], the groups
\* trimmed as the code trims them
PassiveMatch(s, Aux(_, _), by, byLen) ==
  LET Groups(p, mid) ==
        [ok |-> TRUE,
         obj |-> Trim(SubSeq(s, 1, p - 1)),
         aux |-> s[p],
         verb |-> Trim(SubSeq(s, mid[1], mid[2])),
         agent |-> Trim(SubSeq(s, WsEnd(s, mid[2]) + 2, Len(s)))]
      Leftmost(c) == Groups(c[1], c[2])
      First(cs) ==
        IF cs = {} THEN [ok |-> FALSE]
        ELSE Leftmost(CHOOSE c \in cs : \A d \in cs : c[1] <= d[1])
  IN First(AuxStarts(s, Aux, by, byLen))

\* the words of the model's texts that end with 'ed' after at least one
\* letter, and the ones that end with 'ing', as <<word, letters>>
EdWords ==
  {<<"advised", 7>>, <<"evaluated", 9>>, <<"need", 4>>, <<"recommended", 11>>,
   <<"reviewed", 8>>, <<"suggested", 9>>}
IngWords ==
  {<<"being", 5>>, <<"doorvoering", 11>>, <<"ing", 3>>, <<"saying", 6>>,
   <<"uitvoering", 10>>}

\* /\w+ed$/i.test(verbBase)
EndsEd(s) ==
  /\ s # <<>>
  /\ IsWord(s[Len(s)])
  /\ <<s[Len(s)].w, s[Len(s)].n>> \in EdWords
\* /ing$/i.test(verb)
EndsIng(s) ==
  /\ s # <<>>
  /\ IsWord(s[Len(s)])
  /\ <<s[Len(s)].w, s[Len(s)].n>> \in IngWords

\* verb.split(' ').slice(-1)[0]: what follows the last space of s
LastPiece(s) ==
  SubSeq(s, Largest({0} \cup {i \in 1..Len(s) : s[i] = SP}) + 1, Len(s))

\* verbBase.replace(/ed$/i, 'ing'): the word without its last two letters,
\* and the suffix
EdToIng(s) ==
  SubSeq(s, 1, Len(s) - 1)
  \o <<[s[Len(s)] EXCEPT !.n = @ - 2], Lw("ing", 3)>>

\* verbIng of the second English pattern
VerbIng(verb) ==
  IF EndsEd(LastPiece(verb)) THEN EdToIng(LastPiece(verb))
  ELSE IF ~EndsIng(verb) THEN verb \o <<Lw("ing", 3)>>
  ELSE verb

\* what the two functions share: trimmed, trail, core
PassiveTrail(sent) ==
  LET Trail(t) == SubSeq(t, Len(t) - TermCount(t) + 1, Len(t)) IN Trail(Trim(sent))
PassiveCore(sent) ==
  LET Core(t) == Trim(SubSeq(t, 1, Len(t) - TermCount(t))) IN Core(Trim(sent))

\* passiveToActive_en(sent)
passiveToActive_en(sent) ==
  LET Active(trail, m1, m2) ==
        IF m1.ok
        THEN capitalize(m1.agent) \o <<SP>> \o m1.verb \o <<SP>> \o m1.obj \o trail
        ELSE IF m2.ok
        THEN capitalize(m2.agent) \o <<SP, LowerUnit(m2.aux), SP>> \o VerbIng(m2.verb)
             \o <<SP>> \o m2.obj \o trail
        ELSE sent
      Matched(core) ==
        Active(PassiveTrail(sent), PassiveMatch(core, AuxEn1, "by", 2),
               PassiveMatch(core, AuxEn2, "by", 2))
  IN Matched(PassiveCore(sent))

\* passiveToActive_nl(sent) in revision v: humaniser.js has a second pattern
passiveToActive_nl(v, sent) ==
  LET Active(trail, m1, m2) ==
        IF m1.ok
        THEN capitalize(m1.agent) \o <<SP>> \o m1.verb \o <<SP>> \o m1.obj \o trail
        ELSE IF v = "smooth" /\ m2.ok
        THEN capitalize(m2.agent) \o <<SP>> \o m2.verb \o <<SP>> \o m2.obj \o trail
        ELSE sent
      Matched(core) ==
        Active(PassiveTrail(sent), PassiveMatch(core, AuxNl1, "door", 4),
               PassiveMatch(core, AuxNl2, "door", 4))
  IN Matched(PassiveCore(sent))

----------------------------------------------------------------------------
(* shortenSentence                                                         *)

\* s.split(c) for a one-character separator c
SplitOn(s, c) == Split(s, Single(s, c))

\* .map(p => p.trim())
TrimAll(ps) == [i \in 1..Len(ps) |-> Trim(ps[i])]

\* s.slice(0, n): the units that fit, and of the next one what fits
Slice(s, n) ==
  LET k == Largest({j \in 0..Len(s) : StrLen(SubSeq(s, 1, j)) <= n})
      rest == n - StrLen(SubSeq(s, 1, k))
  IN IF k < Len(s) /\ rest > 0
     THEN SubSeq(s, 1, k) \o <<[s[k + 1] EXCEPT !.n = rest]>>
     ELSE SubSeq(s, 1, k)

\* the conjunctions of the patterns, as <<word, letters>>
ConjEn == {<<"and", 3>>, <<"but", 3>>, <<"so", 2>>}
ConjNl == {<<"en", 2>>, <<"maar", 4>>, <<"dus", 3>>, <<"omdat", 5>>}
AndEn == {<<"and", 3>>}
AndNl == {<<"en", 2>>}

IsConj(u, conj) == \E c \in conj : IsThe(u, c[1], c[2])

\* /\s+(w1|w2|...)\s+/i matches s from position i on
ConjAt(s, i, conj) ==
  /\ IsWs(s[i])
  /\ WsEnd(s, i - 1) < Len(s)
  /\ IsConj(s[WsEnd(s, i - 1) + 1], conj)
  /\ WsEnd(s, WsEnd(s, i - 1) + 1) > WsEnd(s, i - 1) + 1

\* the matches of /\s+(w1|w2|...)\s+/i in s
ConjMatches(s, conj) ==
  GlobalMatches({<<i, WsEnd(s, WsEnd(s, i - 1) + 1)>> :
                   i \in {j \in 1..Len(s) : ConjAt(s, j, conj)}}, 1)

\* s.split(/\s+(w1|w2|...)\s+/i): the pieces and, between them, the
\* conjunctions the group captured
SplitConj(s, conj) ==
  LET Pieces(ms) ==
        [k \in 1..(2 * Len(ms) + 1) |->
           IF k % 2 = 1 THEN Between(s, ms, (k + 1) \div 2)
           ELSE <<s[WsEnd(s, ms[k \div 2][1] - 1) + 1]>>]
  IN Pieces(ConjMatches(s, conj))

\* s.split(/\s+w\s+/i), the pattern without the group: the pieces only
SplitAnd(s, conj) == Split(s, ConjMatches(s, conj))

\* parts.slice(0, 2).map(p => capitalize(p) + '.').join(' ')
FirstTwo(ps) ==
  Join([i \in 1..(IF Len(ps) < 2 THEN Len(ps) ELSE 2) |-> capitalize(ps[i]) \o <<DOT>>],
       <<SP>>)

LongLimit == 120
CutLength == 100
ShortLimit == 80

\* shortenSentence(sent, lang)
shortenSentence(sent, lang) ==
  LET AtConj(s, parts) ==
        IF Len(parts) > 1
        THEN capitalize(Trim(parts[1])) \o <<DOT, SP>>
             \o capitalize(Trim(Join(SubSeq(parts, 3, Len(parts)), <<SP>>))) \o <<DOT>>
        ELSE Trim(Slice(s, CutLength)) \o <<DOT, DOT, DOT>>
      Shortened(s) ==
        IF StrLen(s) < LongLimit THEN sent
        ELSE IF \E i \in 1..Len(s) : s[i] = SEMI
        THEN FirstTwo(DropEmpty(TrimAll(SplitOn(s, SEMI))))
        ELSE IF \E i \in 1..Len(s) : s[i] = COMMA
        THEN FirstTwo(DropEmpty(TrimAll(SplitOn(s, COMMA))))
        ELSE AtConj(s, SplitConj(s, IF lang = "en" THEN ConjEn ELSE ConjNl))
  IN Shortened(Trim(sent))

----------------------------------------------------------------------------
(* aiRewriteSentence (part_000)                                            *)

\* rnd() < p, p in millionths: the generator after the draw, and the answer
Below(g, p) ==
  LET Drawn(g1) == [g |-> g1, yes |-> Draw(g1) < p]
  IN Drawn(Rnd(g))

\* s.replace(/([.!?])?$/, x)
ReplaceEnd(s, x) ==
  IF s # <<>> /\ IsTerm(s[Len(s)]) THEN SubSeq(s, 1, Len(s) - 1) \o x ELSE s \o x

\* if (!/[.!?]$/.test(s)) s += '.'
EnsurePunctuation_Skip(s) == s

EnsurePunctuation(s) ==
  IF s # <<>> /\ IsTerm(s[Len(s)]) THEN s ELSE s \o <<DOT>>

\* the phrases the code appends
WhichHelps ==
  <<COMMA, SP, Lw("which", 5), SP, Lw("helps", 5), SP, Lw("clarify", 7), SP,
    Lw("the", 3), SP, Lw("matter", 6), DOT>>
WatDit == <<COMMA, SP, Lw("wat", 3), SP, Lw("dit", 3), SP, Lw("verduidelijkt", 13), DOT>>
JustSaying == <<COMMA, SP, Lw("just", 4), SP, Lw("saying", 6), DOT>>
TerInfo == <<COMMA, SP, Lw("ter", 3), SP, Lw("info", 4), DOT>>
JustFyi == <<SP, Ch("("), Lw("just", 4), SP, Wd("fyi", "U", 3), Ch(")"), DOT>>
TerInfoParen == <<SP, Ch("("), Lw("ter", 3), SP, Lw("info", 4), Ch(")"), DOT>>
EvenTerInfo == <<COMMA, SP, Lw("even", 4), SP, Lw("ter", 3), SP, Lw("info", 4), DOT>>

\* s.replace(/\b(k1|k2)\b/ig, to)
ReplacePhrase(s, keys, to) ==
  LET ms == GlobalMatches(
              {<<i, i + Len(keys[Min({y \in 1..Len(keys) : KeyMatchAt(s, i, keys[y])})]) - 1>> :
                 i \in {j \in 1..Len(s) : \E x \in 1..Len(keys) : KeyMatchAt(s, j, keys[x])}},
              1)
  IN ReplaceAll(s, ms, [k \in 1..Len(ms) |-> to])

ItIs == <<<<Lw("it", 2), SP, Lw("is", 2)>>, <<Lw("this", 4), SP, Lw("is", 2)>>>>
\* the right single quotation mark U+2019 of the replacement
RSQUO == Ch("rsquo")
Its == <<Lw("it", 2), RSQUO, Lw("s", 1)>>
HetIs == <<<<Lw("het", 3), SP, Lw("is", 2)>>, <<Lw("dit", 3), SP, Lw("is", 2)>>>>
HetIsTo == <<Lw("het", 3), SP, Lw("is", 2)>>

\* lang === 'nl' ? passiveToActive_nl(s) : passiveToActive_en(s)
passiveToActive(v, s, lang) ==
  IF lang = "nl" THEN passiveToActive_nl(v, s) ELSE passiveToActive_en(s)

\* 3) clause reorder
AiReorder(g, s, lang, strength) ==
  LET w == IF lang = "en" THEN <<"and", 3>> ELSE <<"en", 2>>
      \* if (commaParts.length >= 2 && commaParts[0].length < 80)
      AtComma(commaParts, coin) ==
        [s |-> IF coin.yes
               THEN capitalize(Trim(Join(Tail(commaParts), <<COMMA>>)))
                    \o <<COMMA, SP>> \o Trim(commaParts[1])
               ELSE s,
         g |-> coin.g]
      \* else if (andParts.length > 1)
      AtAnd(andParts, coin) ==
        [s |-> IF coin.yes
               THEN capitalize(Trim(Join(Tail(andParts), <<SP, Lw(w[1], w[2]), SP>>)))
                    \o <<DOT, SP>> \o capitalize(Trim(andParts[1])) \o <<DOT>>
               ELSE s,
         g |-> coin.g]
      Gated(gate, commaParts, andParts) ==
        IF ~gate.yes THEN [s |-> s, g |-> gate.g]
        ELSE IF Len(commaParts) >= 2 /\ StrLen(commaParts[1]) < ShortLimit
        THEN AtComma(commaParts, Below(gate.g, 500000))
        ELSE IF Len(andParts) > 1
        THEN AtAnd(andParts, Below(gate.g, 500000))
        ELSE [s |-> s, g |-> gate.g]
  IN Gated(Below(g, Scaled(400000, strength)), SplitOn(s, COMMA), SplitAnd(s, {w}))

\* 4) shorten or expand
AiResize(g, s, lang, strength) ==
  LET Long(gate) ==
        [s |-> IF gate.yes THEN shortenSentence(s, lang) ELSE s, g |-> gate.g]
      Short(gate) ==
        [s |-> IF gate.yes
               THEN ReplaceEnd(s, IF lang = "en" THEN WhichHelps ELSE WatDit)
               ELSE s,
         g |-> gate.g]
  IN IF StrLen(s) > LongLimit THEN Long(Below(g, Scaled(900000, strength)))
     ELSE IF StrLen(s) < ShortLimit THEN Short(Below(g, Scaled(200000, strength)))
     ELSE [s |-> s, g |-> g]

\* 5) tone tweaks; strength > 0.6 is strength 1.0 here
AiTone(g, s, lang, strength) ==
  LET Tweaked(coin) ==
        [s |-> IF ~coin.yes THEN s
               ELSE IF lang = "en" THEN ReplacePhrase(s, ItIs, Its)
               ELSE ReplacePhrase(s, HetIs, HetIsTo),
         g |-> coin.g]
      Gated(gate) ==
        IF ~gate.yes THEN [s |-> s, g |-> gate.g]
        ELSE Tweaked(Below(gate.g, IF lang = "en" THEN 500000 ELSE 200000))
  IN IF strength <= 1 THEN [s |-> s, g |-> g]
     ELSE Gated(Below(g, 300000))

\* aiRewriteSentence(sent, lang, strength): the sentence after each step, and
\* the generator after the last
aiRewriteSentence(v, g, sent, lang, strength) ==
  LET \* if (!/[.!?]$/.test(s)) s += '.'; return s
      Step6(s1, r2, r3, r4, r5) ==
        [passive |-> s1, synonyms |-> r2.s, reorder |-> r3.s, resize |-> r4.s,
         tone |-> r5.s, s |-> EnsurePunctuation(Trim(r5.s)), g |-> r5.g]
      \* 5) tone tweaks
      Step5(s1, r2, r3, r4) ==
        Step6(s1, r2, r3, r4, AiTone(r4.g, r4.s, lang, strength))
      \* 4) shorten or expand
      Step4(s1, r2, r3) ==
        Step5(s1, r2, r3, AiResize(r3.g, r3.s, lang, strength))
      \* 3) clause reorder
      Step3(s1, r2) ==
        Step4(s1, r2, AiReorder(r2.g, r2.s, lang, strength))
      \* 2) synonyms, more aggressive
      Step2(gate, s1) ==
        Step3(s1, replaceSynonyms(v, gate.g, s1, lang, "high", strength))
      \* 1) passive to active
      Step1(gate) ==
        Step2(gate, IF gate.yes THEN passiveToActive(v, Trim(sent), lang)
                    ELSE Trim(sent))
  IN Step1(Below(g, Scaled(750000, strength)))

----------------------------------------------------------------------------
(* humanise                                                                *)
(* The options are a record [tone, variability, contractions, shorten,      *)
(* strength, lang, aiMode, rewrite], strength in halves; humaniser.js has   *)
(* no aiMode and no rewrite and ignores them.                               *)

\* opts.strength || 1
OrOne(strength) == IF strength = 0 THEN 2 ELSE strength

\* passiveProb before the strength
PassiveProb(variability) ==
  IF variability = "high" THEN 600000
  ELSE IF variability = "medium" THEN 350000
  ELSE 150000

\* the probability of the shorten gate before the strength
ShortenProb(v) == IF v = "diff" THEN 900000 ELSE 950000

COLON == Ch(":")

\* the passive step of the lighter path
GentlePassive(v, g, s, lang, o) ==
  LET Kept(converted) ==
        IF v = "diff" THEN converted
        ELSE IF converted # <<>> /\ converted # s THEN converted
        ELSE s
      Gated(gate) ==
        [s |-> IF ~gate.yes THEN s ELSE Kept(passiveToActive(v, s, lang)),
         g |-> gate.g]
  IN Gated(Below(g, Scaled(PassiveProb(o.variability), OrOne(o.strength))))

\* the contractions step
GentleContractions(v, s, lang, o) ==
  IF v = "diff"
  THEN IF o.contractions /\ lang = "en" THEN applyContractions(v, s, lang, TRUE) ELSE s
  ELSE applyContractions(v, s, lang, o.contractions /\ o.tone # "formal")

\* the shorten step
GentleShorten(v, g, s, lang, o) ==
  LET Gated(gate) ==
        [s |-> IF gate.yes THEN shortenSentence(s, lang) ELSE s, g |-> gate.g]
  IN IF o.shorten /\ StrLen(s) > LongLimit
     THEN Gated(Below(g, Scaled(ShortenProb(v), OrOne(o.strength))))
     ELSE [s |-> s, g |-> g]

\* the friendly tag
GentleFriendly(v, g, s, lang, o) ==
  LET Tagged(coin) ==
        [s |-> ReplaceEnd(s, IF lang = "en"
                             THEN (IF coin.yes THEN JustFyi ELSE JustSaying)
                             ELSE (IF coin.yes THEN TerInfoParen ELSE EvenTerInfo)),
         g |-> coin.g]
      Gated(gate) ==
        IF ~gate.yes THEN [s |-> s, g |-> gate.g]
        ELSE IF v = "diff"
        THEN [s |-> ReplaceEnd(s, IF lang = "en" THEN JustSaying ELSE TerInfo),
              g |-> gate.g]
        ELSE Tagged(Below(gate.g, 500000))
  IN IF o.tone # "friendly" THEN [s |-> s, g |-> g]
     ELSE Gated(Below(g, Scaled(120000, OrOne(o.strength))))

IAm == <<Wd("i", "U", 1), SP, Lw("am", 2)>>
YouAre == <<Lw("you", 3), SP, Lw("are", 3)>>

\* the formal pass of humaniser.js
GentleFormal(v, s, o) ==
  IF v = "smooth" /\ o.tone = "formal"
  THEN ReplacePhrase(ReplacePhrase(s, <<<<Lw("i", 1), APOS, Lw("m", 1)>>>>, IAm),
                     <<<<Lw("you", 3), APOS, Lw("re", 2)>>>>, YouAre)
  ELSE s

\* the lighter path of one sentence: the sentence after each step, and the
\* generator after the last
GentleSentence(v, g, s, lang, o) ==
  LET \* the formal pass, and what is returned
      Step6(r1, r2, s3, r4, r5) ==
        [passive |-> r1.s, synonyms |-> r2.s, contractions |-> s3, shorten |-> r4.s,
         tone |-> r5.s, s |-> GentleFormal(v, r5.s, o), g |-> r5.g]
      \* the friendly tag
      Step5(r1, r2, s3, r4) ==
        Step6(r1, r2, s3, r4, GentleFriendly(v, r4.g, r4.s, lang, o))
      \* shorten
      Step4(r1, r2, s3) ==
        Step5(r1, r2, s3, GentleShorten(v, r2.g, s3, lang, o))
      \* contractions
      Step3(r1, r2) ==
        Step4(r1, r2, GentleContractions(v, r2.s, lang, o))
      \* synonyms
      Step2(r1) ==
        Step3(r1, replaceSynonyms(v, r1.g, r1.s, lang, o.variability, o.strength))
  IN Step2(GentlePassive(v, g, s, lang, o))

\* the callback of sents.map: one sentence of a line
HumaniseSentence(v, g, sent, lang, o) ==
  LET Returned(r) == [steps |-> r, s |-> EnsurePunctuation(r.s), g |-> r.g]
      Rewritten(s) ==
        Returned(IF v = "diff" /\ o.aiMode /\ o.rewrite
                 THEN aiRewriteSentence(v, g, s, lang, o.strength)
                 ELSE GentleSentence(v, g, s, lang, o))
  IN Rewritten(capitalize(Trim(sent)))

\* sents.map(...), from the i-th sentence on: the sentences and the generator
RECURSIVE HumaniseSentences(_, _, _, _, _, _)
HumaniseSentences(v, g, sents, i, lang, o) ==
  IF i > Len(sents) THEN [ss |-> <<>>, steps |-> <<>>, g |-> g]
  ELSE LET Mapped(r, rest) ==
             [ss |-> <<r.s>> \o rest.ss, steps |-> <<r.steps>> \o rest.steps,
              g |-> rest.g]
           Then(r) == Mapped(r, HumaniseSentences(v, r.g, sents, i + 1, lang, o))
       IN Then(HumaniseSentence(v, g, sents[i], lang, o))

\* return leading + '' + trailing
BlankLine(line) == LeadingWs(line) \o TrailingWs(line)

\* the callback of lines.map: one line, with the sentences it was rewritten
\* to and the number of draws it took
HumaniseLine(v, g, line, lang, o) ==
  LET Returned(r) ==
        [line |-> line, sents |-> r.ss, steps |-> r.steps,
         res |-> LeadingWs(line) \o Join(r.ss, <<SP>>) \o TrailingWs(line),
         g |-> r.g, draws |-> r.g.d - g.d]
      Rewritten(core) ==
        IF core = <<>>
        THEN [line |-> line, res |-> BlankLine(line), sents |-> <<>>, steps |-> <<>>,
              g |-> g, draws |-> 0]
        ELSE Returned(HumaniseSentences(v, g, splitSentences(core), 1, lang, o))
  IN Rewritten(Trim(line))

\* lines.map(...), from the i-th line on
RECURSIVE HumaniseLines(_, _, _, _, _, _)
HumaniseLines(v, g, lines, i, lang, o) ==
  IF i > Len(lines) THEN <<>>
  ELSE LET Then(r) == <<r>> \o HumaniseLines(v, r.g, lines, i + 1, lang, o)
       IN Then(HumaniseLine(v, g, lines[i], lang, o))

\* effectiveLang
EffectiveLang(text, o) ==
  IF o.lang = "auto" THEN detectLanguage(text)
  ELSE IF o.lang \in {"en", "nl"} THEN o.lang
  ELSE "en"

\* [.,!?;:]
IsPunct(u) == u \in {DOT, COMMA, BANG, QM, SEMI, COLON}

\* .replace(/\s+([.,!?;:])/g, '$1')
SmoothBefore(s) ==
  LET ms == GlobalMatches(
              {<<i, WsEnd(s, i - 1) + 1>> :
                 i \in {j \in 1..Len(s) : /\ IsWs(s[j])
                                          /\ WsEnd(s, j - 1) < Len(s)
                                          /\ IsPunct(s[WsEnd(s, j - 1) + 1])}}, 1)
  IN ReplaceAll(s, ms, [k \in 1..Len(ms) |-> <<s[ms[k][2]]>>])

\* .replace(/([.,!?;:])([^\s])/g, '$1 $2')
SmoothAfter(s) ==
  LET ms == GlobalMatches(
              {<<i, i + 1>> :
                 i \in {j \in 1..(Len(s) - 1) : IsPunct(s[j]) /\ ~IsWs(s[j + 1])}}, 1)
  IN ReplaceAll(s, ms, [k \in 1..Len(ms) |-> <<s[ms[k][1]], SP, s[ms[k][2]]>>])

\* .replace(/\n{3,}/g, '\n\n')
SmoothNewlines(s) ==
  LET ms == GlobalMatches(
              {<<i, RunOf(s, i - 1, {NL})>> :
                 i \in {j \in 1..Len(s) : RunOf(s, j - 1, {NL}) >= j + 2}}, 1)
  IN ReplaceAll(s, ms, [k \in 1..Len(ms) |-> <<NL, NL>>])

\* .replace(/[ \t]{2,}/g, ' ')
SmoothSpaces(s) ==
  LET ms == GlobalMatches(
              {<<i, RunOf(s, i - 1, {SP, TAB})>> :
                 i \in {j \in 1..Len(s) : RunOf(s, j - 1, {SP, TAB}) >= j + 1}}, 1)
  IN ReplaceAll(s, ms, [k \in 1..Len(ms) |-> <<SP>>])

\* smoothOutput(text)
smoothOutput(text) == Trim(SmoothSpaces(SmoothNewlines(SmoothAfter(SmoothBefore(text)))))

\* outLines without its empty lines
Results_SkipBlank(rs) ==
  SelectSeq([i \in 1..Len(rs) |-> rs[i].res], LAMBDA l : l # <<>>)

\* outLines: the line returned for each line
Results(rs) == [i \in 1..Len(rs) |-> rs[i].res]

\* humanise(text, options) in revision v, the generator at g: the text it
\* returns, the generator after it, and what it made of each line
humanise(v, g, text, o) ==
  LET Joined(rs, joined) ==
        [lines |-> rs,
         g |-> IF rs = <<>> THEN g ELSE rs[Len(rs)].g,
         text |-> IF v = "smooth" THEN smoothOutput(joined) ELSE joined]
      Mapped(rs) == Joined(rs, Join(Results(rs), <<NL>>))
  IN IF text = <<>> THEN [lines |-> <<>>, g |-> g, text |-> <<>>]
     ELSE Mapped(HumaniseLines(v, g, SplitLines(text), 1, EffectiveLang(text, o), o))

----------------------------------------------------------------------------
(* The diff: tokenizeForDiff, lcs, diffLineHtml, escapeHtml, diffHighlight *)

\* tokenizeForDiff: the matches of
\*   /[A-Za-z...0-9]+(?:'[A-Za-z0-9]+)?|[^\sA-Za-z0-9]+/g
\* from position i on; a token is the string of its units
RECURSIVE TokensFrom(_, _)
TokensFrom(s, i) ==
  IF i > Len(s) THEN <<>>
  ELSE IF IsWs(s[i]) THEN TokensFrom(s, i + 1)
  ELSE IF IsWord(s[i])
       THEN IF i + 2 <= Len(s) /\ s[i + 1] = APOS /\ IsWord(s[i + 2])
            THEN <<SubSeq(s, i, i + 2)>> \o TokensFrom(s, i + 3)
            ELSE <<SubSeq(s, i, i)>> \o TokensFrom(s, i + 1)
  ELSE LET ends == {j \in i..Len(s) : j = Len(s) \/ IsWs(s[j + 1]) \/ IsWord(s[j + 1])}
           e == CHOOSE j \in ends : \A j2 \in ends : j <= j2
       IN <<SubSeq(s, i, e)>> \o TokensFrom(s, e + 1)

tokenizeForDiff(s) == TokensFrom(s, 1)

\* a[i].toLowerCase() === b[j].toLowerCase(), i and j counted from 0
TokEq(a, b, i, j) == ToLower(a[i + 1]) = ToLower(b[j + 1])

\* the table dp of lcs, filled backward; dp[n][*] = dp[*][m] = 0
RECURSIVE LcsTable(_, _, _, _)
LcsTable(a, b, i, j) ==
  IF i >= Len(a) \/ j >= Len(b) THEN 0
  ELSE IF TokEq(a, b, i, j) THEN 1 + LcsTable(a, b, i + 1, j + 1)
  ELSE Max(LcsTable(a, b, i + 1, j), LcsTable(a, b, i, j + 1))

\* the edit operations; an index the operation does not carry is -1
MatchOp(i, j, t) == [type |-> "match", a |-> i, b |-> j, token |-> t]
DelOp(i, t) == [type |-> "del", a |-> i, b |-> -1, token |-> t]
InsOp(j, t) == [type |-> "ins", a |-> -1, b |-> j, token |-> t]

\* the token a match operation carries
MatchToken(a, b, i, j) == a[i + 1]

\* a walk that never consults dp: on unequal tokens it always deletes
RECURSIVE LcsWalk_DelFirst(_, _, _, _)
LcsWalk_DelFirst(a, b, i, j) ==
  IF i < Len(a) /\ j < Len(b)
  THEN IF TokEq(a, b, i, j)
       THEN <<MatchOp(i, j, MatchToken(a, b, i, j))>>
            \o LcsWalk_DelFirst(a, b, i + 1, j + 1)
       ELSE <<DelOp(i, a[i + 1])>> \o LcsWalk_DelFirst(a, b, i + 1, j)
  ELSE IF i < Len(a) THEN <<DelOp(i, a[i + 1])>> \o LcsWalk_DelFirst(a, b, i + 1, j)
  ELSE IF j < Len(b) THEN <<InsOp(j, b[j + 1])>> \o LcsWalk_DelFirst(a, b, i, j + 1)
  ELSE <<>>

\* the walk of lcs from (i, j): the while loop and the two draining loops
RECURSIVE LcsWalk(_, _, _, _)
LcsWalk(a, b, i, j) ==
  IF i < Len(a) /\ j < Len(b)
  THEN IF TokEq(a, b, i, j)
       THEN <<MatchOp(i, j, MatchToken(a, b, i, j))>> \o LcsWalk(a, b, i + 1, j + 1)
       ELSE IF LcsTable(a, b, i + 1, j) >= LcsTable(a, b, i, j + 1)
            THEN <<DelOp(i, a[i + 1])>> \o LcsWalk(a, b, i + 1, j)
            ELSE <<InsOp(j, b[j + 1])>> \o LcsWalk(a, b, i, j + 1)
  ELSE IF i < Len(a) THEN <<DelOp(i, a[i + 1])>> \o LcsWalk(a, b, i + 1, j)
  ELSE IF j < Len(b) THEN <<InsOp(j, b[j + 1])>> \o LcsWalk(a, b, i, j + 1)
  ELSE <<>>

lcs(a, b) == LcsWalk(a, b, 0, 0)

\* escapeHtml
EscapeUnit(u) ==
  IF u = Ch("&") THEN <<Ch("&"), Lw("amp", 3), SEMI>>
  ELSE IF u = Ch("<") THEN <<Ch("&"), Lw("lt", 2), SEMI>>
  ELSE IF u = Ch(">") THEN <<Ch("&"), Lw("gt", 2), SEMI>>
  ELSE <<u>>

escapeHtml(s) == Flatten([i \in 1..Len(s) |-> EscapeUnit(s[i])])

\* <span class="diff-del">, <span class="diff-ins">, </span>
SpanOpen(cls) ==
  <<Ch("<"), Lw("span", 4), SP, Lw("class", 5), Ch("="), Ch("\""),
    Lw("diff", 4), Ch("-"), Lw(cls, 3), Ch("\""), Ch(">")>>
DelOpen == SpanOpen("del")
InsOpen == SpanOpen("ins")
SpanClose == <<Ch("<"), Ch("/"), Lw("span", 4), Ch(">")>>

\* the html of one operation
OpHtml(o) ==
  IF o.type = "match" THEN escapeHtml(o.token)
  ELSE IF o.type = "del" THEN DelOpen \o escapeHtml(o.token) \o SpanClose
  ELSE InsOpen \o escapeHtml(o.token) \o SpanClose

\* /^[^\w]+$/.test(rawToken)
IsPunctToken(t) == t # <<>> /\ \A i \in 1..Len(t) : ~IsWord(t[i])

\* the html of the operations from the k-th on (k counted from 1)
RECURSIVE OpsHtml(_, _)
OpsHtml(ops, k) ==
  IF k > Len(ops) THEN <<>>
  ELSE (IF k > 1 /\ ~IsPunctToken(ops[k].token) THEN <<SP>> ELSE <<>>)
       \o OpHtml(ops[k]) \o OpsHtml(ops, k + 1)

\* diffLineHtml: [html, ops, lcs: whether lcs was called]
diffLineHtml(origLine, newLine) ==
  LET a == tokenizeForDiff(origLine)
      b == tokenizeForDiff(newLine)
  IN IF a = <<>> /\ b = <<>> THEN [html |-> <<>>, ops |-> <<>>, lcs |-> FALSE]
     ELSE LET ops == lcs(a, b)
          IN [html |-> OpsHtml(ops, 1), ops |-> ops, lcs |-> TRUE]

\* a comparison that trims one side only
SameLine_OneTrim(a, b) == a = Trim(b)

\* whether diffHighlight renders the pair of lines as plain escaped text
SameLine(a, b) == Trim(a) = Trim(b)

\* origLines[i] || '' (i counted from 1)
LineOr(lines, i) == IF i <= Len(lines) THEN lines[i] ELSE <<>>

\* a loop over the lines of the original only
MaxLines_OrigOnly(origLines, newLines) == Len(origLines)

\* Math.max(origLines.length, newLines.length)
MaxLines(origLines, newLines) == Max(Len(origLines), Len(newLines))

\* diffHighlight: the rendered lines, [html, ops, lcs] each, and their join
DiffLines(origText, newText) ==
  LET origLines == SplitLines(origText)
      newLines == SplitLines(newText)
      maxLines == MaxLines(origLines, newLines)
  IN [i \in 1..maxLines |->
        LET a == LineOr(origLines, i)
            b == LineOr(newLines, i)
        IN IF SameLine(a, b)
           THEN [html |-> escapeHtml(b), ops |-> <<>>, lcs |-> FALSE]
           ELSE diffLineHtml(a, b)]

diffHighlight(origText, newText) ==
  LET Html(ls) == Join([i \in 1..Len(ls) |-> ls[i].html], <<NL>>)
  IN Html(DiffLines(origText, newText))

----------------------------------------------------------------------------
(* Bounds and input sets                                                   *)

\* the longest token sequence handed to lcs
MaxTokens == 3

\* all sequences over S of length at most n
RECURSIVE SeqsUpTo(_, _)
SeqsUpTo(S, n) ==
  IF n = 0 THEN {<<>>}
  ELSE LET shorter == SeqsUpTo(S, n - 1)
       IN shorter \cup {Append(q, x) : q \in {r \in shorter : Len(r) = n - 1}, x \in S}

\* tokens: a word in two cases, another word, a punctuation token
LcsTokens == {<<Lw("x", 1)>>, <<Wd("x", "U", 1)>>, <<Lw("y", 1)>>, <<DOT>>}

None == [none |-> TRUE]

\* the most calls made in one behaviour
MaxCalls == 3

\* the largest value handed to seed
MaxSeed == 3

\* the values handed to seed: -1 is 4294967295 after s >>> 0
SeedInputs == (-1)..MaxSeed

\* the option lists handed to choose: the empty list and lists of the lexicon
OptionLists ==
  {<<>>} \cup {SynonymsEnCommon[i].opts : i \in 1..Len(SynonymsEnCommon)}

----------------------------------------------------------------------------
(* Operations on the generator, shared by the specifications               *)

\* a seed that is mixed into the state instead of replacing it
Seed_Mix(s) ==
  /\ calls < MaxCalls
  /\ _seed' = Xor32(_seed, SeedValue(s))
  /\ op' = "seed"
  /\ out' = [s |-> s]
  /\ calls' = calls + 1
  /\ UNCHANGED <<variant, input, firstRun>>

\* seed(s)
Seed(s) ==
  /\ calls < MaxCalls
  /\ _seed' = SeedValue(s)
  /\ op' = "seed"
  /\ out' = [s |-> s]
  /\ calls' = calls + 1
  /\ UNCHANGED <<variant, input, firstRun>>

\* one call of rnd()
CallRnd ==
  /\ calls < MaxCalls
  /\ LET r == Rnd([g |-> _seed, d |-> 0])
     IN /\ _seed' = r.g
        /\ out' = [before |-> _seed, v |-> Draw(r)]
  /\ op' = "rnd"
  /\ calls' = calls + 1
  /\ UNCHANGED <<variant, input, firstRun>>

\* one call of choose(arr, prob)
CallChoose(arr, prob) ==
  /\ calls < MaxCalls
  /\ LET r == choose([g |-> _seed, d |-> 0], arr, prob)
     IN /\ _seed' = r.g.g
        /\ out' = [before |-> _seed, arr |-> arr, prob |-> prob,
                   v |-> r.v, draws |-> r.g.d]
  /\ op' = "choose"
  /\ calls' = calls + 1
  /\ UNCHANGED <<variant, input, firstRun>>

----------------------------------------------------------------------------
(* The generator on its own: seed, rnd and choose called in any order      *)

InitRng ==
  /\ variant \in {"diff", "smooth"}
  /\ _seed = DefaultSeed
  /\ input = None
  /\ op = "init"
  /\ out = None
  /\ calls = 0
  /\ firstRun = None

NextRng ==
  \/ \E s \in SeedInputs : Seed(s)
  \/ CallRnd
  \/ \E arr \in OptionLists : CallChoose(arr, ChooseProb)

SpecRng == InitRng /\ [][NextRng]_vars

\* C9 as claimed: every call of choose on a non-empty list advances the
\* generator by exactly one draw, whichever element is returned.
C9_OneDrawAlways ==
  (op = "choose" /\ out.arr # <<>>) =>
    /\ out.draws = 1
    /\ _seed = Step(out.before)

\* C9 as amended: a call of choose on a non-empty list advances the generator
\* by one draw when that draw is below prob, and options[0] is returned; it
\* advances the generator by two draws otherwise.
C9_OneOrTwoDraws ==
  (op = "choose" /\ out.arr # <<>>) =>
    IF Mod1e6(Step(out.before)) < out.prob
    THEN out.draws = 1 /\ _seed = Step(out.before) /\ out.v = out.arr[1]
    ELSE out.draws = 2 /\ _seed = Step(Step(out.before))

\* a call that took the second branch and selected an element other than
\* options[0]
C9_Witness ==
  /\ op = "choose"
  /\ out.arr # <<>>
  /\ out.draws = 2
  /\ out.v # out.arr[1]

\* C12: after any sequence of seed, rnd and choose calls the generator
\* state, as a 32-bit unsigned word, is not zero, and the next draw leaves it
\* not zero: seed(0) stores 1 and the xorshift update takes the states
\* reached to non-zero words.
C12_NeverZero ==
  /\ _seed # <<0, 0>>
  /\ Step(_seed) # <<0, 0>>

\* seed(0) called after other calls have been made: the state is 1
C12_Witness ==
  /\ op = "seed"
  /\ out.s = 0
  /\ calls >= 2
  /\ _seed = <<0, 1>>

----------------------------------------------------------------------------
(* The synonym substituter on its own: replaceSynonyms applied to one      *)
(* sentence, from a generator state that seed or the default leaves        *)

\* the longest sentence handed to replaceSynonyms, in units
MaxSynSentence == 3

SynAlphabet ==
  {Lw("utilize", 7), Wd("utilize", "C", 7), Lw("perform", 7), SP, Ch("@")}

SeededStates == {DefaultSeed} \cup {SeedValue(s) : s \in SeedInputs}

InitSyn ==
  /\ variant \in {"diff", "smooth"}
  /\ _seed \in SeededStates
  /\ input \in {[s |-> s, lang |-> l, variability |-> v, strength |-> h] :
                  s \in {t \in SeqsUpTo(SynAlphabet, MaxSynSentence) : WellFormed(t)},
                  l \in {"en", "nl"}, v \in {"low", "medium", "high"}, h \in {1, 2}}
  /\ op = "init"
  /\ out = None
  /\ calls = 0
  /\ firstRun = None

CallReplaceSynonyms ==
  /\ op = "init"
  /\ LET Returned(r) ==
           /\ _seed' = r.g.g
           /\ out' = [s |-> r.s, replaced |-> r.replaced, draws |-> r.g.d]
     IN Returned(replaceSynonyms(variant, [g |-> _seed, d |-> 0], input.s, input.lang,
                                 input.variability, input.strength))
  /\ op' = "replaceSynonyms"
  /\ calls' = calls + 1
  /\ UNCHANGED <<variant, input, firstRun>>

NextSyn == CallReplaceSynonyms

SpecSyn == InitSyn /\ [][NextSyn]_vars

\* C10: one call of replaceSynonyms performs at most
\* max(1, floor(2 * probability)) substitutions, also when one key occurs
\* several times in the sentence.
C10_CapHolds ==
  op = "replaceSynonyms" =>
    out.replaced <= Max(1, (2 * Scaled(BaseProb(input.variability), input.strength))
                             \div Million)

----------------------------------------------------------------------------
(* The library as a page uses it: seed and humanise called in any order on *)
(* one document with one set of options, and diffHighlight called on the   *)
(* document and its rewriting                                              *)

\* the most lines of a document
MaxDocLines == 2

\* the lines documents are made of: the empty line, a whitespace-only line,
\* an indented English passive with a trailing tab, two sentences with a
\* synonym key and a contraction key and a trailing carriage return, a
\* sentence of more than 120 characters with a comma, and a Dutch passive
DocLines ==
  { <<>>,
    <<SP, TAB>>,
    <<SP, SP, Lw("report", 6), SP, Lw("was", 3), SP, Lw("reviewed", 8), SP,
      Lw("by", 2), SP, Lw("team", 4), DOT, TAB>>,
    <<Lw("utilize", 7), SP, Lw("it", 2), BANG, SP, Lw("do", 2), SP, Lw("not", 3),
      SP, Lw("x", 1), CR>>,
    <<TAB, Lw("x", 121), SP, Lw("and", 3), SP, Lw("x", 5), COMMA, SP, Lw("x", 3), SP>>,
    <<Lw("de", 2), SP, Lw("x", 1), SP, Lw("werd", 4), SP, Lw("x", 2), SP,
      Lw("door", 4), SP, Lw("een", 3), SP, Lw("team", 4), QM>> }

\* the documents: at most MaxDocLines lines, joined by line feeds
Docs == {Join(ls, <<NL>>) : ls \in SeqsUpTo(DocLines, MaxDocLines) \ {<<>>}}

\* the defaults that Object.assign fills in
Defaults(v) ==
  [tone |-> IF v = "smooth" THEN "casual" ELSE "formal", variability |-> "medium",
   contractions |-> TRUE, shorten |-> TRUE, strength |-> 2, lang |-> "auto",
   aiMode |-> FALSE, rewrite |-> TRUE]

\* the options handed to humanise, after the defaults are filled in: the
\* defaults, the friendly tone at high variability, the stronger rewriting in
\* English and in Dutch, the formal tone (the default of part_000), and a
\* low setting with strength 0
OptionSets(v) ==
  { Defaults(v),
    [Defaults(v) EXCEPT !.tone = "friendly", !.variability = "high", !.lang = "en"],
    [Defaults(v) EXCEPT !.aiMode = TRUE, !.lang = "en"],
    [Defaults(v) EXCEPT !.aiMode = TRUE, !.lang = "nl", !.strength = 1],
    [Defaults(v) EXCEPT !.tone = "formal"],
    [Defaults(v) EXCEPT !.tone = "formal", !.variability = "low", !.strength = 0,
                        !.contractions = FALSE, !.lang = "xx"] }

\* the values handed to seed between the runs of humanise: 1, and the value
\* the generator is loaded with
RunSeeds == {1, 1234567}

Init ==
  /\ variant \in {"diff", "smooth"}
  /\ _seed = DefaultSeed
  /\ input \in {[text |-> t, o |-> o] : t \in Docs, o \in OptionSets(variant)}
  /\ op = "init"
  /\ out = None
  /\ calls = 0
  /\ firstRun = None

\* what a run made of one line: the line, the line returned for it, the
\* sentences of its core as the rewriting path returned them and as they
\* were joined, the draws it took, and each sentence after each step
LineOfRun(r) ==
  [line |-> r.line, res |-> r.res, sents |-> r.sents, draws |-> r.draws,
   rewritten |-> [i \in 1..Len(r.steps) |-> r.steps[i].s],
   steps |-> [i \in 1..Len(r.steps) |-> [r.steps[i] EXCEPT !.g = r.steps[i].g.d]]]

\* humanise(text, options): the generator it started from, the text
\* returned, what was made of each line, the draws taken, and <<s>> when
\* seed(s) was the call before; the first run of a behaviour is kept in
\* firstRun
Humanise ==
  /\ calls < MaxCalls
  /\ LET Recorded(run) ==
           /\ out' = run
           /\ firstRun' = IF firstRun = None THEN run ELSE firstRun
         Returned(r) ==
           /\ _seed' = r.g.g
           /\ Recorded([from |-> _seed, text |-> r.text, draws |-> r.g.d,
                        after |-> r.g.g,
                        lines |-> [i \in 1..Len(r.lines) |-> LineOfRun(r.lines[i])],
                        seeded |-> IF op = "seed" THEN <<out.s>> ELSE <<>>])
     IN Returned(humanise(variant, [g |-> _seed, d |-> 0], input.text, input.o))
  /\ op' = "humanise"
  /\ calls' = calls + 1
  /\ UNCHANGED <<variant, input>>

\* diffHighlight(text, rewritten), in the revision that has it
Diff ==
  /\ calls < MaxCalls
  /\ variant = "diff"
  /\ op = "humanise"
  /\ op' = "diffHighlight"
  /\ out' = [html |-> diffHighlight(input.text, out.text)]
  /\ calls' = calls + 1
  /\ UNCHANGED <<variant, _seed, input, firstRun>>

Next ==
  \/ \E s \in RunSeeds : Seed(s)
  \/ Humanise
  \/ Diff

Spec == Init /\ [][Next]_vars

\* the lines of the text handed to humanise, and of the text it returned
InLines == SplitLines(input.text)
OutLines == SplitNl(out.text)

\* the i-th line handed to humanise has an empty core
Blank(i) == Trim(InLines[i]) = <<>>

\* s ends in '.', '!' or '?'
EndsInTerm(s) == s # <<>> /\ IsTerm(s[Len(s)])

\* C2: in the revision that has diffHighlight, the text humanise returns for
\* a non-empty text has as many lines, separated by "\n", as the text handed
\* to it has lines separated by "\n" or "\r\n", on the gentle path and on
\* the aiMode path.
C2_SameLineCount ==
  (op = "humanise" /\ variant = "diff" /\ input.text # <<>>) =>
    /\ Len(OutLines) = Len(InLines)
    /\ Len(out.lines) = Len(InLines)

\* a run on the aiMode path over two lines separated by "\r\n", one of them
\* blank, that rewrote the text
C2_Witness ==
  /\ op = "humanise"
  /\ variant = "diff"
  /\ input.o.aiMode
  /\ Len(InLines) >= 2
  /\ \E i \in 1..(Len(input.text) - 1) : input.text[i] = CR /\ input.text[i + 1] = NL
  /\ \E i \in 1..Len(InLines) : Blank(i)
  /\ out.text # input.text
  /\ out.draws > 0

\* outLines.join('\n') of the run: the text handed to smoothOutput
JoinedLines == Join([i \in 1..Len(out.lines) |-> out.lines[i].res], <<NL>>)

\* C14: the text smoothOutput returns at the end of humanise has as many
\* lines, separated by "\n", as the text joined from the rewritten lines that
\* was handed to it.
C14_SmoothKeepsLines ==
  (op = "humanise" /\ variant = "smooth" /\ input.text # <<>>) =>
    /\ out.text = smoothOutput(JoinedLines)
    /\ Len(SplitNl(out.text)) = Len(SplitNl(JoinedLines))

\* C3: the output line of every input line with a non-empty core is the
\* input line's leading whitespace, a rewritten core that neither starts nor
\* ends in whitespace, and the input line's trailing whitespace.
C3_WhitespaceKept ==
  op = "humanise" =>
    \A i \in 1..Len(InLines) :
      ~Blank(i) =>
        /\ i <= Len(OutLines)
        /\ Trim(OutLines[i]) # <<>>
        /\ OutLines[i] = LeadingWs(InLines[i]) \o Trim(OutLines[i]) \o TrailingWs(InLines[i])

\* C3 holds in the revision that returns outLines.join('\n') as it is
C3_WhitespaceKept_Joined ==
  (op = "humanise" /\ variant = "diff") =>
    \A i \in 1..Len(InLines) :
      ~Blank(i) =>
        /\ i <= Len(OutLines)
        /\ Trim(OutLines[i]) # <<>>
        /\ OutLines[i] = LeadingWs(InLines[i]) \o Trim(OutLines[i]) \o TrailingWs(InLines[i])

\* C4: the output line of every input line with an empty core (the empty
\* line and every whitespace-only line) is the input line, character for
\* character, and the line consumes no draw of the generator.
C4_BlankUnchanged ==
  op = "humanise" =>
    \A i \in 1..Len(out.lines) :
      Blank(i) =>
        /\ i <= Len(OutLines)
        /\ OutLines[i] = InLines[i]
        /\ out.lines[i].draws = 0

\* the part of C4 that holds: a line with an empty core consumes no draw,
\* and the empty line is returned as the empty line by the line callback
C4_BlankNoDraw ==
  op = "humanise" =>
    \A i \in 1..Len(out.lines) :
      Blank(i) =>
        /\ out.lines[i].draws = 0
        /\ InLines[i] = <<>> => out.lines[i].res = <<>>

C6_SentencesTerminated ==
  op = "humanise" =>
    \A i \in 1..Len(out.lines) :
      ~Blank(i) =>
        /\ out.lines[i].sents # <<>>
        /\ \A j \in 1..Len(out.lines[i].sents) : EndsInTerm(out.lines[i].sents[j])
        /\ (variant = "diff" /\ input.o.aiMode /\ input.o.rewrite) =>
             \A j \in 1..Len(out.lines[i].rewritten) :
               EndsInTerm(out.lines[i].rewritten[j])
        /\ variant = "diff" =>
             /\ i <= Len(OutLines)
             /\ EndsInTerm(Trim(OutLines[i]))

\* a line of two sentences whose last sentence came without a terminator
C6_Witness ==
  /\ op = "humanise"
  /\ \E i \in 1..Len(out.lines) :
       /\ ~Blank(i)
       /\ Len(out.lines[i].sents) >= 2
       /\ ~EndsInTerm(Trim(InLines[i]))

\* the j-th sentence of the i-th line went down the lighter path and the
\* contractions step changed it
Contracted(i, j) ==
  /\ "contractions" \in DOMAIN out.lines[i].steps[j]
  /\ out.lines[i].steps[j].contractions # out.lines[i].steps[j].synonyms

\* C11: humanise rewrites a phrase to its contracted form only when
\* options.contractions is true and options.tone is not 'formal'; with the
\* tone 'formal', also as the default, the contractions step changes no
\* sentence.
C11_ContractionsGated ==
  op = "humanise" =>
    \A i \in 1..Len(out.lines) : \A j \in 1..Len(out.lines[i].steps) :
      Contracted(i, j) => (input.o.contractions /\ input.o.tone # "formal")

\* the same in the revision with smoothOutput alone, where the call is
\* applyContractions(s, lang, opts.contractions && opts.tone !== 'formal')
C11_ContractionsGated_Smooth ==
  (op = "humanise" /\ variant = "smooth") =>
    \A i \in 1..Len(out.lines) : \A j \in 1..Len(out.lines[i].steps) :
      Contracted(i, j) => (input.o.contractions /\ input.o.tone # "formal")

\* a run of the revision with smoothOutput in which the contractions step
\* changed a sentence
C11_SmoothContracts ==
  /\ op = "humanise"
  /\ variant = "smooth"
  /\ \E i \in 1..Len(out.lines) : \E j \in 1..Len(out.lines[i].steps) :
       Contracted(i, j)

----------------------------------------------------------------------------
(* The alignment engine on its own: lcs applied to two token sequences     *)

InitLcs ==
  /\ variant = "diff"
  /\ _seed = DefaultSeed
  /\ input \in {[a |-> a, b |-> b] : a \in SeqsUpTo(LcsTokens, MaxTokens),
                                      b \in SeqsUpTo(LcsTokens, MaxTokens)}
  /\ op = "init"
  /\ out = None
  /\ calls = 0
  /\ firstRun = None

CallLcs ==
  /\ op = "init"
  /\ op' = "lcs"
  /\ out' = [ops |-> lcs(input.a, input.b)]
  /\ calls' = calls + 1
  /\ UNCHANGED <<variant, _seed, input, firstRun>>

NextLcs == CallLcs

SpecLcs == InitLcs /\ [][NextLcs]_vars

\* the tokens of the operations of the given types, in order
RECURSIVE Replay(_, _)
Replay(ops, types) ==
  IF ops = <<>> THEN <<>>
  ELSE (IF Head(ops).type \in types THEN <<Head(ops).token>> ELSE <<>>)
       \o Replay(Tail(ops), types)

\* C1: the tokens of the match and del operations of lcs(A, B) are A, and the
\* tokens of its match and ins operations are B, token for token, same case.
C1_ReplayBoth ==
  op = "lcs" =>
    /\ Replay(out.ops, {"match", "del"}) = input.a
    /\ Replay(out.ops, {"match", "ins"}) = input.b

\* the number of match operations
MatchCount(ops) == Cardinality({k \in 1..Len(ops) : ops[k].type = "match"})

\* the tokens of s at the positions of S, in order, lower-cased
RECURSIVE PickFrom(_, _, _)
PickFrom(s, S, k) ==
  IF k > Len(s) THEN <<>>
  ELSE (IF k \in S THEN <<ToLower(s[k])>> ELSE <<>>) \o PickFrom(s, S, k + 1)

\* s is a subsequence of t, tokens compared without case
RECURSIVE IsSubseq(_, _)
IsSubseq(s, t) ==
  IF s = <<>> THEN TRUE
  ELSE IF t = <<>> THEN FALSE
  ELSE IF Head(s) = ToLower(Head(t)) THEN IsSubseq(Tail(s), Tail(t))
  ELSE IsSubseq(s, Tail(t))

\* the length of a longest common subsequence, by trying every subsequence of a
LongestCommon(a, b) ==
  LET common == {S \in SUBSET (1..Len(a)) : IsSubseq(PickFrom(a, S, 1), b)}
  IN CHOOSE n \in 0..Len(a) :
       /\ \E S \in common : Cardinality(S) = n
       /\ \A S \in common : Cardinality(S) <= n

\* C13: the number of match operations of lcs(A, B) is the length of a longest
\* common subsequence of A and B, tokens compared without case, and that
\* length is the table entry dp[0][0].
C13_MatchesAreLongest ==
  op = "lcs" =>
    /\ MatchCount(out.ops) = LongestCommon(input.a, input.b)
    /\ LcsTable(input.a, input.b, 0, 0) = LongestCommon(input.a, input.b)

\* a call where the first tokens differ, a longest common subsequence has two
\* tokens, one of them matched across a difference of case
C13_Witness ==
  /\ op = "lcs"
  /\ Len(input.a) = MaxTokens /\ Len(input.b) = MaxTokens
  /\ ~TokEq(input.a, input.b, 0, 0)
  /\ MatchCount(out.ops) = 2
  /\ \E k \in 1..Len(out.ops) :
       /\ out.ops[k].type = "match"
       /\ input.a[out.ops[k].a + 1] # input.b[out.ops[k].b + 1]

----------------------------------------------------------------------------
(* The diff renderer on its own: diffHighlight applied to two texts        *)

\* the longest original text, in units; the rewritten text is one shorter
MaxDiffText == 3

DiffAlphabet == {Lw("x", 1), SP, NL, CR, Ch("<")}

DiffTexts(n) == {t \in SeqsUpTo(DiffAlphabet, n) : WellFormed(t)}

InitDiff ==
  /\ variant = "diff"
  /\ _seed = DefaultSeed
  /\ input \in {[orig |-> o, new |-> n] :
                  o \in DiffTexts(MaxDiffText), n \in DiffTexts(MaxDiffText - 1)}
                \cup {[orig |-> t, new |-> t] : t \in DiffTexts(MaxDiffText)}
  /\ op = "init"
  /\ out = None
  /\ calls = 0
  /\ firstRun = None

CallDiffHighlight ==
  /\ op = "init"
  /\ op' = "diffHighlight"
  /\ out' = [lines |-> DiffLines(input.orig, input.new),
             html |-> diffHighlight(input.orig, input.new)]
  /\ calls' = calls + 1
  /\ UNCHANGED <<variant, _seed, input, firstRun>>

NextDiff == CallDiffHighlight

SpecDiff == InitDiff /\ [][NextDiff]_vars

\* the number of places where the string m occurs in s
Occurrences(s, m) ==
  Cardinality({i \in 1..(Len(s) - Len(m) + 1) : SubSeq(s, i, i + Len(m) - 1) = m})

\* C7: diffHighlight(t, t) holds no deletion and no insertion marker, each of
\* its lines is the escaped line of t, and lcs is called for no line.
C7_IdentityDiff ==
  (op = "diffHighlight" /\ input.orig = input.new) =>
    LET ls == SplitLines(input.new)
    IN /\ Occurrences(out.html, DelOpen) = 0
       /\ Occurrences(out.html, InsOpen) = 0
       /\ SplitNl(out.html) = [i \in 1..Len(ls) |-> escapeHtml(ls[i])]
       /\ \A i \in 1..Len(out.lines) : ~out.lines[i].lcs

C7_Witness ==
  /\ op = "diffHighlight"
  /\ input.orig = input.new
  /\ Len(SplitLines(input.new)) >= 2
  /\ \E i \in 1..Len(input.new) : input.new[i] = Ch("<")
  /\ \E i \in 1..Len(input.new) : IsWs(input.new[i]) /\ input.new[i] # NL

\* the operations that render every token of the line as a deletion (insertion)
AllDel(line) ==
  LET t == tokenizeForDiff(line) IN [k \in 1..Len(t) |-> DelOp(k - 1, t[k])]
AllIns(line) ==
  LET t == tokenizeForDiff(line) IN [k \in 1..Len(t) |-> InsOp(k - 1, t[k])]

\* C8: the output of diffHighlight has max(lines(original), lines(rewritten))
\* lines, and a line present on one side only has all its tokens rendered as
\* deletions (original only) or as insertions (rewritten only).
C8_LineCount ==
  op = "diffHighlight" =>
    LET ol == SplitLines(input.orig)
        nl == SplitLines(input.new)
    IN /\ Len(SplitNl(out.html)) = Max(Len(ol), Len(nl))
       /\ Len(out.lines) = Max(Len(ol), Len(nl))
       /\ \A i \in 1..Len(out.lines) :
            /\ i > Len(nl) =>
                 /\ out.lines[i].ops = AllDel(ol[i])
                 /\ Occurrences(out.lines[i].html, DelOpen) = Len(tokenizeForDiff(ol[i]))
                 /\ Occurrences(out.lines[i].html, InsOpen) = 0
            /\ i > Len(ol) =>
                 /\ out.lines[i].ops = AllIns(nl[i])
                 /\ Occurrences(out.lines[i].html, InsOpen) = Len(tokenizeForDiff(nl[i]))
                 /\ Occurrences(out.lines[i].html, DelOpen) = 0

C8_Witness ==
  /\ op = "diffHighlight"
  /\ Len(SplitLines(input.orig)) > Len(SplitLines(input.new))
  /\ Len(out.lines) = Len(SplitLines(input.orig))
  /\ Len(tokenizeForDiff(SplitLines(input.orig)[Len(out.lines)])) >= 2
  /\ Len(out.lines[Len(out.lines)].ops) >= 2

----------------------------------------------------------------------------
(* passiveToActive_en on its own, applied to sentences of the two forms   *)
(* OBJECT AUX VERB by AGENT and OBJECT AUX being VERB by AGENT            *)

PassiveObjects == {<<Lw("it", 2)>>, <<Lw("report", 6)>>,
                   <<Wd("the", "C", 3), SP, Lw("report", 6)>>}
PassiveAuxes == {Lw("is", 2), Lw("are", 3), Lw("was", 3), Lw("were", 4)}
PassiveVerbs == {<<Lw("reviewed", 8)>>, <<Lw("built", 5)>>,
                 <<Lw("fully", 5), SP, Lw("evaluated", 9)>>}
PassiveAgents == {<<Lw("team", 4)>>, <<Lw("the", 3), SP, Lw("team", 4)>>}
PassiveTrails == {<<>>, <<DOT>>, <<QM, BANG>>}

\* the sentence of the parts, with 'being' after the auxiliary or without
PassiveSentence(obj, aux, being, verb, agent, trail) ==
  obj \o <<SP, aux, SP>> \o (IF being THEN <<Lw("being", 5), SP>> ELSE <<>>)
  \o verb \o <<SP, Lw("by", 2), SP>> \o agent \o trail

InitPassive ==
  /\ variant \in {"diff", "smooth"}
  /\ _seed = DefaultSeed
  /\ input \in {[obj |-> o, aux |-> a, being |-> b, verb |-> v, agent |-> g,
                 trail |-> t, sent |-> PassiveSentence(o, a, b, v, g, t)] :
                  o \in PassiveObjects, a \in PassiveAuxes, b \in BOOLEAN,
                  v \in PassiveVerbs, g \in PassiveAgents, t \in PassiveTrails}
  /\ op = "init"
  /\ out = None
  /\ calls = 0
  /\ firstRun = None

CallPassiveToActiveEn ==
  /\ op = "init"
  /\ op' = "passiveToActive_en"
  /\ out' = [s |-> passiveToActive_en(input.sent)]
  /\ calls' = calls + 1
  /\ UNCHANGED <<variant, _seed, input, firstRun>>

NextPassive == CallPassiveToActiveEn

SpecPassive == InitPassive /\ [][NextPassive]_vars

\* C15: for a sentence OBJECT (is|are|was|were) being VERB by AGENT,
\* passiveToActive_en returns AGENT AUX VERB-ing OBJECT with the trailing
\* terminators, the verb's 'ed' replaced by 'ing' or 'ing' appended.
C15_ProgressiveRewrite ==
  (op = "passiveToActive_en" /\ input.being) =>
    out.s = capitalize(input.agent) \o <<SP, LowerUnit(input.aux), SP>>
            \o VerbIng(input.verb) \o <<SP>> \o input.obj \o input.trail

\* what the function returns for the sentences of both forms: the rewrite
\* of the first pattern, whose second group takes 'being' with the verb
C15_FirstPatternApplied ==
  op = "passiveToActive_en" =>
    out.s = capitalize(input.agent) \o <<SP>>
            \o (IF input.being THEN <<Lw("being", 5), SP>> ELSE <<>>)
            \o input.verb \o <<SP>> \o input.obj \o input.trail

\* a call on a sentence with 'being' and a verb that ends in 'ed'
C15_BeingSentence ==
  /\ op = "passiveToActive_en"
  /\ input.being
  /\ EndsEd(LastPiece(input.verb))
  /\ out.s # input.sent

----------------------------------------------------------------------------
(* splitSentences on its own, applied to the core of a line               *)

\* the longest core, in units
MaxCore == 4

CoreAlphabet == {Lw("x", 1), SP, DOT, QM, BANG}

\* line.trim() of a line that has a core: not empty, no whitespace at its ends
Cores ==
  {c \in SeqsUpTo(CoreAlphabet, MaxCore) : c # <<>> /\ WellFormed(c) /\ Trim(c) = c}

InitSplit ==
  /\ variant \in {"diff", "smooth"}
  /\ _seed = DefaultSeed
  /\ input \in {[core |-> c] : c \in Cores}
  /\ op = "init"
  /\ out = None
  /\ calls = 0
  /\ firstRun = None

CallSplitSentences ==
  /\ op = "init"
  /\ op' = "splitSentences"
  /\ out' = [sents |-> splitSentences(input.core)]
  /\ calls' = calls + 1
  /\ UNCHANGED <<variant, _seed, input, firstRun>>

NextSplit == CallSplitSentences

SpecSplit == InitSplit /\ [][NextSplit]_vars

\* s with its whitespace removed
NoSpace(s) == SelectSeq(s, LAMBDA u : ~IsWs(u))

\* C16: the sentences splitSentences returns for a core, concatenated in
\* order, are the core with only whitespace removed: every character that is
\* not whitespace, repeated and leading terminators included, is in a sentence.
C16_NoContentLost ==
  op = "splitSentences" => NoSpace(Flatten(out.sents)) = NoSpace(input.core)

\* a terminator of the core that no match of /[^.!?]+[.!?]?/g can take: the
\* core starts with it or it follows a terminator, and the core has a
\* character that is not a terminator
Skipped(c, i) ==
  /\ IsTerm(c[i])
  /\ i = 1 \/ IsTerm(c[i - 1])
  /\ \E j \in 1..Len(c) : ~IsTerm(c[j])

\* what the function keeps: every character that is not whitespace but the
\* terminators it skips
C16_SkippedLost ==
  op = "splitSentences" =>
    NoSpace(Flatten(out.sents))
      = NoSpace(Flatten([i \in 1..Len(input.core) |->
                           IF Skipped(input.core, i) THEN <<>> ELSE <<input.core[i]>>]))

\* a call on a core with a word and a repeated terminator
C16_RepeatedTerminator ==
  /\ op = "splitSentences"
  /\ IsWord(input.core[1])
  /\ \E i \in 2..Len(input.core) : Skipped(input.core, i)
  /\ Len(out.sents) >= 1

====
